---- MODULE Spec2Model ----
(***************************************************************************)
(* Receipt certification subsystem of llmring-server                       *)
(* (src/llmring_server/services/receipts.py): the receipts and             *)
(* receipt_logs tables, the four selection modes of                        *)
(* generate_on_demand_receipt, Ed25519 signing over the canonical form of  *)
(* the signed fields, and the owner-scoped reads.                          *)
(*                                                                         *)
(* One request of generate_on_demand_receipt is a process that takes one   *)
(* step per database statement (every await), so that requests of several  *)
(* workers interleave between the selection, the receipt insert and the    *)
(* link inserts.                                                           *)
(***************************************************************************)
EXTENDS Integers, Sequences, FiniteSets, TLC

VARIABLES
    settings,        \* Settings: receipts_private_key_base64 / receipts_public_key_base64
    conversations,   \* rows of {{tables.conversations}}
    usage_logs,      \* rows of {{tables.usage_logs}}
    receipts,        \* rows of {{tables.receipts}}
    receipt_logs,    \* rows of {{tables.receipt_logs}}
    next_receipt,    \* number of receipt ids generated so far
    call,            \* per worker: the generate_on_demand_receipt request in flight
    last_call,       \* the last generate call that returned (history)
    stored_for,      \* receipt_id -> the owner whose request stored it (history)
    held,            \* a receipt in the hands of a client (verification model)
    verdict,         \* outcome of the last verification of the held receipt
    key_file,        \* the key file of load_or_generate_keypair: absent or its lines
    keypair,         \* outcome of the last load_or_generate_keypair call
    canon,           \* a payload dict, its insertion order and its canonical bytes
    mcp              \* mcp_client.servers / tools / resources / prompts, last response

vars == <<settings, conversations, usage_logs, receipts, receipt_logs,
          next_receipt, call, last_call, stored_for, held, verdict,
          key_file, keypair, canon, mcp>>

dbvars == <<conversations, usage_logs, receipts, receipt_logs, next_receipt>>

\* what the receipts service never touches
envvars == <<mcp, canon, key_file, keypair>>

----------------------------------------------------------------------------
(* Bounds of the model *)

MaxRecords == 2        \* conversations plus usage logs ever logged
MaxReceipts == 2       \* receipts ever stored

Owners == {"key-1", "key-2"}
Workers == {"w1", "w2"}

NULL == 0              \* SQL NULL / Python None for ids and instants
RecordIds == 1..MaxRecords

----------------------------------------------------------------------------
(* Small helpers *)

SeqToSet(s) == {s[i] : i \in 1..Len(s)}

\* every enumeration of the finite set S as a sequence without repetition
Orderings(S) ==
    {s \in [1..Cardinality(S) -> S] : \A i, j \in 1..Cardinality(S) : i # j => s[i] # s[j]}

\* ORDER BY created_at DESC; rows with equal created_at come in any order
OrderByCreatedDesc(S) ==
    {s \in Orderings(S) : \A i, j \in 1..Len(s) : i < j => s[i].created_at >= s[j].created_at}

\* Python's `x or "default"` on a string column that may be NULL/empty
OrDefault(x) == IF x = "" THEN "default" ELSE x

----------------------------------------------------------------------------
(* Timestamps, canonical form and signatures *)

UTC == "+00:00"
Naive == ""

\* datetime.now(timezone.utc)
utcnow(t) == [t |-> t, tzinfo |-> UTC]

\* datetime.replace(tzinfo=None)
replace_tzinfo_none(ts) == [t |-> ts.t, tzinfo |-> Naive]

\* datetime.isoformat(): the wall-clock reading followed by the offset, if any
isoformat(ts) == <<ts.t, ts.tzinfo>>

\* the fields of UnsignedReceipt (models/receipts.py)
SignedFields == {"receipt_id", "timestamp", "alias", "profile", "lock_digest",
                 "provider", "model", "prompt_tokens", "completion_tokens",
                 "total_tokens", "input_cost", "output_cost", "total_cost"}

\* the fields BatchReceipt adds to Receipt
BatchOnlyFields == {"receipt_type", "batch_summary", "description", "tags"}

\* description: Optional[str] = None and tags: Optional[List[str]] = None
NoDescription == ""
NoTags == <<>>

\* all member names a receipt object can carry, in lexicographic (JCS) order
KeyOrder == <<"alias", "batch_summary", "completion_tokens", "description",
              "input_cost", "lock_digest", "model", "output_cost", "profile",
              "prompt_tokens", "provider", "receipt_id", "receipt_type",
              "signature", "tags", "timestamp", "total_cost", "total_tokens">>

RECURSIVE SortedMembers(_, _)
SortedMembers(obj, i) ==
    IF i > Len(KeyOrder) THEN <<>>
    ELSE IF KeyOrder[i] \in DOMAIN obj
         THEN <<<<KeyOrder[i], obj[KeyOrder[i]]>>>> \o SortedMembers(obj, i + 1)
         ELSE SortedMembers(obj, i + 1)

\* rfc8785.dumps: the members of the object sorted by name, whatever order
\* the dict was built in
canonicalize_bytes(obj) == SortedMembers(obj, 1)

\* BaseModel.model_dump(exclude=...)
model_dump(m, exclude) == [f \in (DOMAIN m) \ exclude |-> m[f]]

\* the dict with "timestamp" replaced by its ISO string
WithIsoTimestamp(d) ==
    [f \in DOMAIN d |-> IF f = "timestamp" THEN isoformat(d[f]) ELSE d[f]]

\* the fields of UnsignedReceipt in declaration order, the order of the
\* dict model_dump() returns
DeclarationOrder ==
    <<"receipt_id", "timestamp", "alias", "profile", "lock_digest", "provider",
      "model", "prompt_tokens", "completion_tokens", "total_tokens",
      "input_cost", "output_cost", "total_cost">>

\* a dict as Python holds it: its items in insertion order
dict_items(d, order) == [i \in 1..Len(order) |-> <<order[i], d[order[i]]>>]

\* json.dumps without sort_keys: the members in insertion order
json_dumps_unsorted(items) == items

\* the members of the dict named KeyOrder[i], KeyOrder[i + 1], ...
RECURSIVE MembersFrom(_, _)
MembersFrom(items, i) ==
    IF i > Len(KeyOrder) THEN <<>>
    ELSE LET named(item) == item[1] = KeyOrder[i]
         IN  SelectSeq(items, named) \o MembersFrom(items, i + 1)

\* rfc8785.dumps on a dict in any insertion order: the members sorted by name
rfc8785_dumps(items) == MembersFrom(items, 1)

NoKey == ""

NoSignature == [prefix |-> "", decodable |-> FALSE, key |-> NoKey, msg |-> <<>>]

\* "ed25519:" + base64url(SigningKey(private).sign(canonical).signature)
ed25519_sign(private_key, canonical) ==
    [prefix |-> "ed25519:", decodable |-> TRUE, key |-> private_key, msg |-> canonical]

\* VerifyKey(public).verify(canonical, signature): no exception raised
ed25519_verify(public_key, canonical, sig) ==
    sig.key = public_key /\ sig.msg = canonical

SigningConfigured == settings.receipts_private_key_base64 # NoKey

issue_signature(payload_without_signature) ==
    ed25519_sign(settings.receipts_private_key_base64,
                 canonicalize_bytes(WithIsoTimestamp(payload_without_signature)))

\* the checks of _verify_signature up to the decoding of the signature
verify_signature_prefix_only(receipt) ==
    /\ receipt.signature # NoSignature
    /\ receipt.signature.prefix = "ed25519:"
    /\ settings.receipts_public_key_base64 # NoKey
    /\ receipt.signature.decodable

\* _verify_signature without the test of the "ed25519:" prefix
verify_signature_any_prefix(receipt) ==
    IF receipt.signature = NoSignature THEN FALSE
    ELSE IF settings.receipts_public_key_base64 = NoKey THEN FALSE
    ELSE IF ~receipt.signature.decodable THEN FALSE
    ELSE ed25519_verify(settings.receipts_public_key_base64,
                        canonicalize_bytes(WithIsoTimestamp(
                            model_dump(receipt, {"signature"} \cup BatchOnlyFields))),
                        receipt.signature)

\* _verify_signature leaving description and tags in the canonical form
verify_signature_summary_only(receipt) ==
    IF receipt.signature = NoSignature THEN FALSE
    ELSE IF receipt.signature.prefix # "ed25519:" THEN FALSE
    ELSE IF settings.receipts_public_key_base64 = NoKey THEN FALSE
    ELSE IF ~receipt.signature.decodable THEN FALSE
    ELSE ed25519_verify(settings.receipts_public_key_base64,
                        canonicalize_bytes(WithIsoTimestamp(
                            model_dump(receipt, {"signature", "receipt_type",
                                                 "batch_summary"}))),
                        receipt.signature)

\* _verify_signature canonicalizing every field but the signature
verify_signature_all_fields(receipt) ==
    IF receipt.signature = NoSignature THEN FALSE
    ELSE IF receipt.signature.prefix # "ed25519:" THEN FALSE
    ELSE IF settings.receipts_public_key_base64 = NoKey THEN FALSE
    ELSE IF ~receipt.signature.decodable THEN FALSE
    ELSE ed25519_verify(settings.receipts_public_key_base64,
                        canonicalize_bytes(WithIsoTimestamp(
                            model_dump(receipt, {"signature"}))),
                        receipt.signature)

verify_signature(receipt) ==
    IF receipt.signature = NoSignature THEN FALSE
    ELSE IF receipt.signature.prefix # "ed25519:" THEN FALSE
    ELSE IF settings.receipts_public_key_base64 = NoKey THEN FALSE
    ELSE IF ~receipt.signature.decodable THEN FALSE
    ELSE ed25519_verify(settings.receipts_public_key_base64,
                        canonicalize_bytes(WithIsoTimestamp(
                            model_dump(receipt, {"signature"} \cup BatchOnlyFields))),
                        receipt.signature)

----------------------------------------------------------------------------
(* load_or_generate_keypair and ensure_receipt_keys (config.py) *)

MaxFileLines == 3
MaxKeyLoads == 2

\* a line of the key file: the base64url text of a 32-byte key, text that
\* does not decode to 32 bytes, or nothing
KeyLines == {"k1", "k2", "junk", ""}

\* key_file.exists() is false
Absent == <<"absent">>

\* the files the service can find at start-up
KeyFiles ==
    {Absent} \cup UNION {[1..n -> KeyLines] : n \in 0..MaxFileLines}

\* str.strip() of the file's text: leading and trailing blank lines go
RECURSIVE strip(_)
strip(lines) ==
    IF lines = <<>> THEN <<>>
    ELSE IF Head(lines) = "" THEN strip(Tail(lines))
    ELSE IF lines[Len(lines)] = "" THEN strip(SubSeq(lines, 1, Len(lines) - 1))
    ELSE lines

\* content.split("\n"): the empty text splits into one empty line
split_lines(lines) == IF lines = <<>> THEN <<"">> ELSE lines

\* signing.SigningKey(_b64url_decode(x)) / signing.VerifyKey(...) raise
\* unless x decodes to 32 bytes
ValidKey(x) == x \in {"k1", "k2"}

\* signing.SigningKey.generate(): the n-th generated keypair
GeneratedKey(n) == <<"g1", "g2", "g3">>[n]

NoKeypair == [n |-> 0, given |-> FALSE, existed |-> FALSE, status |-> "none",
              private |-> NoKey, public |-> NoKey]

\* load_or_generate_keypair(key_file) on the file `file`; given: a path was
\* passed. The result has the outcome and the file as the call leaves it
load_or_generate_keypair(file, given, n) ==
    LET lines == split_lines(strip(file))
        generated ==
            [status |-> "generated", private |-> GeneratedKey(n),
             public |-> GeneratedKey(n),
             file |-> IF given THEN <<GeneratedKey(n), GeneratedKey(n)>> ELSE file]
    IN  IF given /\ file # Absent
        THEN IF Len(lines) >= 2
             THEN IF ValidKey(lines[1]) /\ ValidKey(lines[2])
                  THEN [status |-> "returned", private |-> lines[1],
                        public |-> lines[2], file |-> file]
                  ELSE [status |-> "error", private |-> NoKey, public |-> NoKey,
                        file |-> file]
             ELSE generated
        ELSE generated

\* a direct call of load_or_generate_keypair
LoadKeypair(given) ==
    /\ keypair.n < MaxKeyLoads
    /\ LET result == load_or_generate_keypair(key_file, given, keypair.n + 1) IN
       /\ keypair' = [n |-> keypair.n + 1, given |-> given,
                      existed |-> key_file # Absent, status |-> result.status,
                      private |-> result.private, public |-> result.public]
       /\ key_file' = result.file
    /\ UNCHANGED <<mcp, canon, settings, dbvars, call, last_call, stored_for, held, verdict>>

\* ensure_receipt_keys(settings, key_file): when a key is missing the pair is
\* loaded or generated and put into the settings; a load error propagates
ensure_receipt_keys(given) ==
    /\ keypair.n < MaxKeyLoads
    /\ \/ settings.receipts_private_key_base64 = NoKey
       \/ settings.receipts_public_key_base64 = NoKey
    /\ LET result == load_or_generate_keypair(key_file, given, keypair.n + 1) IN
       /\ keypair' = [n |-> keypair.n + 1, given |-> given,
                      existed |-> key_file # Absent, status |-> result.status,
                      private |-> result.private, public |-> result.public]
       /\ key_file' = result.file
       /\ settings' = IF result.status = "error" THEN settings
                      ELSE [receipts_private_key_base64 |-> result.private,
                            receipts_public_key_base64 |-> result.public]
    /\ UNCHANGED <<mcp, canon, dbvars, call, last_call, stored_for, held, verdict>>

----------------------------------------------------------------------------
(* ReceiptGenerationRequest (models/receipts.py) *)

NoRequest == [conversation_id |-> NULL, start_date |-> NULL, end_date |-> NULL,
              log_ids |-> {}, since_last_receipt |-> FALSE]

ByConversation(id) == [NoRequest EXCEPT !.conversation_id = id]
ByDateRange(s, e) == [NoRequest EXCEPT !.start_date = s, !.end_date = e]
ByIds(ids) == [NoRequest EXCEPT !.log_ids = ids]
SinceLastReceipt == [NoRequest EXCEPT !.since_last_receipt = TRUE]

\* the requests the workers receive
Requests ==
    {ByConversation(1), ByDateRange(1, MaxRecords), ByIds({1, 2}),
     SinceLastReceipt, NoRequest}

\* the branch of the if/elif chain a request takes
Mode(request) ==
    IF request.conversation_id # NULL THEN "conversation"
    ELSE IF request.start_date # NULL /\ request.end_date # NULL THEN "date_range"
    ELSE IF request.log_ids # {} THEN "log_ids"
    ELSE IF request.since_last_receipt THEN "since_last_receipt"
    ELSE "none"

\* history: the last date-range or since-last-receipt call that returned and
\* what it linked, while no record has been logged and no other call has
\* returned since
NoLastCall == [valid |-> FALSE, api_key_id |-> "", request |-> NoRequest, linked |-> {}]

----------------------------------------------------------------------------
(* Candidate source: conversations and usage logs *)

\* what a caller can log: alias (possibly empty), provider, model, tokens, cost
LogShapes ==
    { [alias |-> "chat", provider |-> "openai", model |-> "gpt-4o",
       input_tokens |-> 2, output_tokens |-> 1, cost |-> 3] }

RecordCount == Cardinality(conversations) + Cardinality(usage_logs)

\* created_at of the next logged record: instants are modelled by the order
\* in which the records are logged
now == RecordCount + 1

\* the clock reading taken for the next receipt: readings are modelled by the
\* order in which the receipts are created
receipt_now == next_receipt + 1

\* ConversationService.create_conversation with the statistics the messages
\* of the conversation add up to; provider/model are the metadata of its
\* most recent message
LogConversation(o, sh) ==
    /\ RecordCount < MaxRecords
    /\ conversations' = conversations \cup
         {[id |-> RecordCount + 1, api_key_id |-> o, model_alias |-> sh.alias,
           provider |-> sh.provider, model |-> sh.model,
           total_input_tokens |-> sh.input_tokens,
           total_output_tokens |-> sh.output_tokens,
           total_cost |-> sh.cost, created_at |-> now]}
    /\ last_call' = NoLastCall
    /\ UNCHANGED <<envvars, settings, usage_logs, receipts, receipt_logs, next_receipt,
                   call, stored_for, held, verdict>>

\* UsageService.log_usage: conversation_id is NULL or a conversation of the caller
LogUsage(o, sh, cid) ==
    /\ RecordCount < MaxRecords
    /\ cid = NULL \/ \E c \in conversations : c.id = cid /\ c.api_key_id = o
    /\ usage_logs' = usage_logs \cup
         {[id |-> RecordCount + 1, api_key_id |-> o, alias |-> sh.alias,
           provider |-> sh.provider, model |-> sh.model,
           input_tokens |-> sh.input_tokens, output_tokens |-> sh.output_tokens,
           cost |-> sh.cost, created_at |-> now, conversation_id |-> cid]}
    /\ last_call' = NoLastCall
    /\ UNCHANGED <<envvars, settings, conversations, receipts, receipt_logs, next_receipt,
                   call, stored_for, held, verdict>>

----------------------------------------------------------------------------
(* LogSelector: the four selection modes *)

\* the normalized dict built from a conversation row in the batch modes
conv_log(c) ==
    [id |-> c.id, type |-> "conversation", alias |-> OrDefault(c.model_alias),
     provider |-> "unknown", model |-> "unknown",
     input_tokens |-> c.total_input_tokens, output_tokens |-> c.total_output_tokens,
     cost |-> c.total_cost, timestamp |-> c.created_at]

\* the normalized dict built from a usage_logs row
usage_log(u) ==
    [id |-> u.id, type |-> "usage", alias |-> OrDefault(u.alias),
     provider |-> u.provider, model |-> u.model,
     input_tokens |-> u.input_tokens, output_tokens |-> u.output_tokens,
     cost |-> u.cost, timestamp |-> u.created_at]

MapConv(rows) == [i \in 1..Len(rows) |-> conv_log(rows[i])]
MapUsage(rows) == [i \in 1..Len(rows) |-> usage_log(rows[i])]

\* the conversation looked up by id alone
fetch_conversation_logs_any_owner(api_key_id, conversation_id) ==
    LET result == {c \in conversations : c.id = conversation_id}
    IN  IF result = {} THEN {<<>>}
        ELSE {<<[conv_log(c) EXCEPT !.provider = c.provider, !.model = c.model]>> :
                 c \in result}

\* the conversation looked up with the filter of the since-last-receipt mode
fetch_conversation_logs_uncertified(api_key_id, conversation_id) ==
    LET result == {c \in conversations :
                      /\ c.id = conversation_id /\ c.api_key_id = api_key_id
                      /\ ~\E rl \in receipt_logs :
                            rl.log_id = c.id /\ rl.log_type = "conversation"}
    IN  IF result = {} THEN {<<>>}
        ELSE {<<[conv_log(c) EXCEPT !.provider = c.provider, !.model = c.model]>> :
                 c \in result}

\* the possible results of _fetch_conversation_logs
fetch_conversation_logs(api_key_id, conversation_id) ==
    LET result == {c \in conversations :
                      c.id = conversation_id /\ c.api_key_id = api_key_id}
    IN  IF result = {} THEN {<<>>}
        ELSE {<<[conv_log(c) EXCEPT !.provider = c.provider, !.model = c.model]>> :
                 c \in result}

\* conv_query of _fetch_logs_by_date_range
date_range_conversations(api_key_id, start_date, end_date) ==
    {MapConv(rows) : rows \in OrderByCreatedDesc(
        {c \in conversations : /\ c.api_key_id = api_key_id
                               /\ c.created_at >= start_date
                               /\ c.created_at <= end_date})}

\* usage_query of _fetch_logs_by_date_range
date_range_usage(api_key_id, start_date, end_date) ==
    {MapUsage(rows) : rows \in OrderByCreatedDesc(
        {u \in usage_logs : /\ u.api_key_id = api_key_id
                            /\ u.created_at >= start_date
                            /\ u.created_at <= end_date
                            /\ u.conversation_id = NULL})}

\* the conv_query restricted to conversations without a link row
ids_conversations_uncertified(api_key_id, log_ids) ==
    {MapConv(rows) : rows \in Orderings(
        {c \in conversations : /\ c.api_key_id = api_key_id /\ c.id \in log_ids
                               /\ ~\E rl \in receipt_logs : rl.log_id = c.id})}

\* conv_query of _fetch_logs_by_ids (no ORDER BY: any row order)
ids_conversations(api_key_id, log_ids) ==
    {MapConv(rows) : rows \in Orderings(
        {c \in conversations : c.api_key_id = api_key_id /\ c.id \in log_ids})}

\* usage_query of _fetch_logs_by_ids (no ORDER BY: any row order)
ids_usage(api_key_id, log_ids) ==
    {MapUsage(rows) : rows \in Orderings(
        {u \in usage_logs : u.api_key_id = api_key_id /\ u.id \in log_ids})}

\* the uncertified query without its NOT EXISTS clause
NotInReceiptLogs_absent(id, type) == TRUE

\* NOT EXISTS (SELECT 1 FROM receipt_logs rl WHERE rl.log_id = id AND rl.log_type = type)
NotInReceiptLogs(id, type) ==
    ~\E rl \in receipt_logs : rl.log_id = id /\ rl.log_type = type

\* conv_query of _fetch_uncertified_logs
uncertified_conversations(api_key_id) ==
    {MapConv(rows) : rows \in OrderByCreatedDesc(
        {c \in conversations : /\ c.api_key_id = api_key_id
                               /\ NotInReceiptLogs(c.id, "conversation")})}

\* usage_query of _fetch_uncertified_logs
uncertified_usage(api_key_id) ==
    {MapUsage(rows) : rows \in OrderByCreatedDesc(
        {u \in usage_logs : /\ u.api_key_id = api_key_id
                            /\ NotInReceiptLogs(u.id, "usage")})}

----------------------------------------------------------------------------
(* ReceiptStore: the receipts table and the receipt_logs table *)

\* f"rcpt_{uuid4().hex[:16]}": the n-th identifier drawn is distinct from all others
new_receipt_id(n) == <<"rcpt_", n>>

\* by_model / by_alias with no bucket
NoBuckets == [k \in {} |-> [calls |-> 0, cost |-> 0, tokens |-> 0]]

NoSummary == [total_conversations |-> 0, total_calls |-> 0, total_tokens |-> 0,
              by_model |-> NoBuckets, by_alias |-> NoBuckets,
              conversation_ids |-> <<>>, log_ids |-> <<>>]

\* the row _store_receipt / _store_batch_receipt insert for a signed receipt
receipt_row(api_key_id, receipt, conversation_id) ==
    [receipt_id |-> receipt.receipt_id, api_key_id |-> api_key_id,
     model |-> receipt.model, provider |-> receipt.provider,
     alias |-> receipt.alias, profile |-> receipt.profile,
     lock_digest |-> receipt.lock_digest, signature |-> receipt.signature,
     receipt_timestamp |-> IF receipt.timestamp.tzinfo # Naive
                           THEN replace_tzinfo_none(receipt.timestamp)
                           ELSE receipt.timestamp,
     conversation_id |-> conversation_id,
     tokens |-> [input |-> receipt.prompt_tokens, output |-> receipt.completion_tokens],
     cost |-> [input |-> receipt.input_cost, output |-> receipt.output_cost,
               total |-> receipt.total_cost],
     receipt_type |-> IF "receipt_type" \in DOMAIN receipt
                      THEN receipt.receipt_type ELSE "single",
     batch_summary |-> IF "batch_summary" \in DOMAIN receipt
                       THEN receipt.batch_summary ELSE NoSummary,
     description |-> IF "description" \in DOMAIN receipt
                     THEN receipt.description ELSE NoDescription,
     tags |-> IF "tags" \in DOMAIN receipt THEN receipt.tags ELSE NoTags]

\* the Receipt get_receipt / list_receipts build from a row
row_receipt(result) ==
    [receipt_id |-> result.receipt_id, timestamp |-> result.receipt_timestamp,
     alias |-> result.alias, profile |-> result.profile,
     lock_digest |-> result.lock_digest, provider |-> result.provider,
     model |-> result.model,
     prompt_tokens |-> result.tokens.input,
     completion_tokens |-> result.tokens.output,
     total_tokens |-> result.tokens.input + result.tokens.output,
     input_cost |-> result.cost.input, output_cost |-> result.cost.output,
     total_cost |-> result.cost.total, signature |-> result.signature]

\* the lookup by receipt_id alone
get_receipt_any_owner(receipt_id, api_key_id) ==
    {row_receipt(r) : r \in {x \in receipts : x.receipt_id = receipt_id}}

\* get_receipt: the set of receipts the query can return (empty: None)
get_receipt(receipt_id, api_key_id) ==
    {row_receipt(r) : r \in {x \in receipts :
        x.receipt_id = receipt_id /\ x.api_key_id = api_key_id}}

\* list_receipts with limit and offset covering the whole table
list_receipts(api_key_id) ==
    {row_receipt(r) : r \in {x \in receipts : x.api_key_id = api_key_id}}

\* the INSERT with the conflict target log_id alone
link_insert_per_log(links, receipt_id, log) ==
    IF \E rl \in links : rl.log_id = log.id
    THEN links
    ELSE links \cup {[receipt_id |-> receipt_id, log_id |-> log.id,
                      log_type |-> log.type]}

\* the INSERT that moves the record's link to the new receipt
link_insert_replace(links, receipt_id, log) ==
    {rl \in links : ~(rl.log_id = log.id /\ rl.log_type = log.type)}
        \cup {[receipt_id |-> receipt_id, log_id |-> log.id, log_type |-> log.type]}

\* one INSERT ... ON CONFLICT (receipt_id, log_id) DO NOTHING
link_insert(links, receipt_id, log) ==
    IF \E rl \in links : rl.receipt_id = receipt_id /\ rl.log_id = log.id
    THEN links
    ELSE links \cup {[receipt_id |-> receipt_id, log_id |-> log.id,
                      log_type |-> log.type]}

\* the link rows of a receipt
links_of(receipt_id) == {rl \in receipt_logs : rl.receipt_id = receipt_id}

NotFoundOrDenied == "Receipt not found or access denied"

\* the links of the receipt read without the ownership check
get_logs_for_receipt_unchecked(receipt_id, api_key_id) ==
    [error |-> "",
     logs |-> {rl.log_id : rl \in {x \in receipt_logs : x.receipt_id = receipt_id}},
     total |-> Cardinality({x \in receipt_logs : x.receipt_id = receipt_id})]

\* get_logs_for_receipt with limit and offset covering all links: the
\* ValueError raised, or the ids of the rows fetched and the link count
get_logs_for_receipt(receipt_id, api_key_id) ==
    IF get_receipt(receipt_id, api_key_id) = {}
    THEN [error |-> NotFoundOrDenied, logs |-> {}, total |-> 0]
    ELSE [error |-> "",
          logs |-> {rl.log_id : rl \in {x \in links_of(receipt_id) :
                      IF x.log_type = "conversation"
                      THEN \E c \in conversations : c.id = x.log_id
                      ELSE \E u \in usage_logs : u.id = x.log_id}},
          total |-> Cardinality(links_of(receipt_id))]

\* GET /api/v1/receipts/{receipt_id}/logs
get_receipt_logs(receipt_id, api_key_id) ==
    LET r == get_logs_for_receipt(receipt_id, api_key_id)
    IN  IF r.error # ""
        THEN [status_code |-> 404, detail |-> r.error, logs |-> {}, total |-> 0]
        ELSE [status_code |-> 200, detail |-> "", logs |-> r.logs, total |-> r.total]

\* get_uncertified_logs with limit and offset covering the whole result
get_uncertified_logs(api_key_id) ==
    {conv_log(c) : c \in {x \in conversations :
        x.api_key_id = api_key_id /\ NotInReceiptLogs(x.id, "conversation")}}
    \cup {usage_log(u) : u \in {x \in usage_logs :
        x.api_key_id = api_key_id /\ NotInReceiptLogs(x.id, "usage")}}

----------------------------------------------------------------------------
(* AggregationEngine and ReceiptSigner *)

RECURSIVE sum_input_tokens(_)
sum_input_tokens(logs) ==
    IF logs = <<>> THEN 0 ELSE Head(logs).input_tokens + sum_input_tokens(Tail(logs))

RECURSIVE sum_output_tokens(_)
sum_output_tokens(logs) ==
    IF logs = <<>> THEN 0 ELSE Head(logs).output_tokens + sum_output_tokens(Tail(logs))

RECURSIVE sum_cost(_)
sum_cost(logs) ==
    IF logs = <<>> THEN 0 ELSE Head(logs).cost + sum_cost(Tail(logs))

\* the ids of the logs of the given type, in list order
ids_of_type(logs, type) ==
    LET keep(l) == l.type = type
        sel == SelectSeq(logs, keep)
    IN  [i \in 1..Len(sel) |-> sel[i].id]

\* the by_model / by_alias dict after `for log in logs`: the bucket of the
\* log's key is created on first sight and then added to
RECURSIVE aggregate(_, _)
aggregate(logs, key) ==
    IF logs = <<>> THEN NoBuckets
    ELSE LET before == aggregate(SubSeq(logs, 1, Len(logs) - 1), key)
             log == logs[Len(logs)]
             k == log[key]
             bucket == IF k \in DOMAIN before THEN before[k]
                       ELSE [calls |-> 0, cost |-> 0, tokens |-> 0]
         IN  [x \in (DOMAIN before) \cup {k} |->
                 IF x = k
                 THEN [calls |-> bucket.calls + 1,
                       cost |-> bucket.cost + log.cost,
                       tokens |-> bucket.tokens + log.input_tokens + log.output_tokens]
                 ELSE before[x]]

\* the summary with total_calls counting the distinct models seen
batch_summary_of_calls_per_model(logs) ==
    [total_conversations |-> Len(ids_of_type(logs, "conversation")),
     total_calls |-> Cardinality(DOMAIN aggregate(logs, "model")),
     total_tokens |-> sum_input_tokens(logs) + sum_output_tokens(logs),
     by_model |-> aggregate(logs, "model"),
     by_alias |-> aggregate(logs, "alias"),
     conversation_ids |-> ids_of_type(logs, "conversation"),
     log_ids |-> ids_of_type(logs, "usage")]

\* BatchReceiptSummary(...): the model has no total_cost field, so the
\* total_cost argument is dropped; start_date and end_date are not modelled
batch_summary_of(logs) ==
    [total_conversations |-> Len(ids_of_type(logs, "conversation")),
     total_calls |-> Len(logs),
     total_tokens |-> sum_input_tokens(logs) + sum_output_tokens(logs),
     by_model |-> aggregate(logs, "model"),
     by_alias |-> aggregate(logs, "alias"),
     conversation_ids |-> ids_of_type(logs, "conversation"),
     log_ids |-> ids_of_type(logs, "usage")]

\* f"batch:{len(logs)} calls"
batch_model(n) ==
    <<"batch:1 calls", "batch:2 calls", "batch:3 calls", "batch:4 calls",
      "batch:5 calls", "batch:6 calls">>[n]

\* the UnsignedReceipt with the batch representation of the model whatever
\* the number of logs
batch_unsigned_summary_model(logs, receipt_id, t) ==
    [receipt_id |-> receipt_id, timestamp |-> utcnow(t),
     alias |-> logs[1].alias, profile |-> "default", lock_digest |-> "",
     provider |-> logs[1].provider, model |-> batch_model(Len(logs)),
     prompt_tokens |-> sum_input_tokens(logs),
     completion_tokens |-> sum_output_tokens(logs),
     total_tokens |-> sum_input_tokens(logs) + sum_output_tokens(logs),
     input_cost |-> 0, output_cost |-> 0, total_cost |-> sum_cost(logs)]

\* the UnsignedReceipt _create_batch_receipt builds for a non-empty list
batch_unsigned(logs, receipt_id, t) ==
    LET receipt_type == IF Len(logs) = 1 THEN "single" ELSE "batch"
        primary_log == logs[1]
    IN  [receipt_id |-> receipt_id, timestamp |-> utcnow(t),
         alias |-> primary_log.alias, profile |-> "default", lock_digest |-> "",
         provider |-> primary_log.provider,
         model |-> IF receipt_type = "single" THEN primary_log.model
                   ELSE batch_model(Len(logs)),
         prompt_tokens |-> sum_input_tokens(logs),
         completion_tokens |-> sum_output_tokens(logs),
         total_tokens |-> sum_input_tokens(logs) + sum_output_tokens(logs),
         input_cost |-> 0, output_cost |-> 0, total_cost |-> sum_cost(logs)]

\* Receipt(**payload, signature=signature)
signed(payload, signature) ==
    [f \in (DOMAIN payload) \cup {"signature"} |->
        IF f = "signature" THEN signature ELSE payload[f]]

\* BatchReceipt(**payload, signature=..., receipt_type=..., batch_summary=...,
\* description=..., tags=...); the requests carry no description and no tags
create_batch_receipt(logs, receipt_id, t) ==
    LET payload == batch_unsigned(logs, receipt_id, t)
        r == signed(payload, issue_signature(payload))
    IN  [f \in (DOMAIN r) \cup BatchOnlyFields |->
            IF f = "receipt_type" THEN (IF Len(logs) = 1 THEN "single" ELSE "batch")
            ELSE IF f = "batch_summary" THEN batch_summary_of(logs)
            ELSE IF f = "description" THEN NoDescription
            ELSE IF f = "tags" THEN NoTags
            ELSE r[f]]

\* the UnsignedReceipt generate_and_sign_receipt builds
single_unsigned(receipt_id, t, alias, profile, lock_digest, provider, model, prompt_tokens, completion_tokens, input_cost, output_cost) ==
    [receipt_id |-> receipt_id, timestamp |-> utcnow(t),
     alias |-> alias, profile |-> profile, lock_digest |-> lock_digest,
     provider |-> provider, model |-> model,
     prompt_tokens |-> prompt_tokens, completion_tokens |-> completion_tokens,
     total_tokens |-> prompt_tokens + completion_tokens,
     input_cost |-> input_cost, output_cost |-> output_cost,
     total_cost |-> input_cost + output_cost]

----------------------------------------------------------------------------
(* generate_on_demand_receipt: one process per request *)

NoReceipt == signed(single_unsigned(new_receipt_id(0), 0, "", "", "", "", "", 0, 0, 0, 0),
                    NoSignature)

\* a BatchReceipt with nothing in it
NoBatchReceipt ==
    [f \in (DOMAIN NoReceipt) \cup BatchOnlyFields |->
        IF f = "receipt_type" THEN "single"
        ELSE IF f = "batch_summary" THEN NoSummary
        ELSE IF f = "description" THEN NoDescription
        ELSE IF f = "tags" THEN NoTags ELSE NoReceipt[f]]

\* history: the last preview answered to the caller, with the tables it read
NoPreview == [valid |-> FALSE, api_key_id |-> "", request |-> NoRequest,
              logs |-> <<>>, status_code |-> 0, body |-> [total_logs |-> 0],
              db |-> <<{}, {}, {}>>]

IdleCall == [pc |-> "idle", api_key_id |-> "", request |-> NoRequest, logs |-> <<>>,
             receipt |-> NoBatchReceipt, next |-> 0, error |-> "",
             certified_count |-> 0, prior |-> {}, preview |-> NoPreview]

\* the request arrives; the first query of the selected mode runs
GenStart(w, o, request) ==
    /\ call[w].pc = "idle"
    /\ IF Mode(request) = "none"
       THEN call' = [call EXCEPT ![w] =
                [IdleCall EXCEPT !.pc = "failed", !.error = "Must specify one of",
                                 !.preview = call[w].preview]]
       ELSE \E logs \in
               CASE Mode(request) = "conversation" ->
                      fetch_conversation_logs(o, request.conversation_id)
                 [] Mode(request) = "date_range" ->
                      date_range_conversations(o, request.start_date, request.end_date)
                 [] Mode(request) = "log_ids" -> ids_conversations(o, request.log_ids)
                 [] OTHER -> uncertified_conversations(o) :
               call' = [call EXCEPT ![w] =
                  [IdleCall EXCEPT
                     !.pc = IF Mode(request) = "conversation"
                            THEN "fetched" ELSE "usage_query",
                     !.api_key_id = o, !.request = request, !.logs = logs,
                     !.preview = call[w].preview,
                     !.prior = IF /\ last_call.valid
                                  /\ last_call.api_key_id = o
                                  /\ last_call.request = request
                               THEN last_call.linked ELSE {}]]
    /\ UNCHANGED <<envvars, settings, dbvars, last_call, stored_for, held, verdict>>

\* the usage_logs query of the batch modes; its rows follow the conversations
GenUsageQuery(w) ==
    /\ call[w].pc = "usage_query"
    /\ LET c == call[w]
           r == c.request
       IN \E logs \in
             CASE Mode(r) = "date_range" ->
                    date_range_usage(c.api_key_id, r.start_date, r.end_date)
               [] Mode(r) = "log_ids" -> ids_usage(c.api_key_id, r.log_ids)
               [] OTHER -> uncertified_usage(c.api_key_id) :
             call' = [call EXCEPT ![w].logs = c.logs \o logs, ![w].pc = "fetched"]
    /\ UNCHANGED <<envvars, settings, dbvars, last_call, stored_for, held, verdict>>

\* `if not logs: raise ValueError`, then _create_batch_receipt: aggregate,
\* sign, INSERT INTO receipts
GenCreate(w) ==
    /\ call[w].pc = "fetched"
    /\ LET c == call[w] IN
       IF c.logs = <<>> THEN
           /\ call' = [call EXCEPT ![w] = [IdleCall EXCEPT !.pc = "failed",
                                   !.error = "No logs found matching the criteria",
                                   !.preview = c.preview]]
           /\ UNCHANGED <<receipts, next_receipt, stored_for>>
       ELSE IF ~SigningConfigured THEN
           /\ call' = [call EXCEPT ![w] = [IdleCall EXCEPT !.pc = "failed",
                                   !.error = "Signing key not configured"]]
           /\ UNCHANGED <<receipts, next_receipt, stored_for>>
       ELSE
           /\ Cardinality(receipts) < MaxReceipts
           /\ LET receipt == create_batch_receipt(c.logs,
                                 new_receipt_id(next_receipt + 1), receipt_now)
              IN /\ receipts' = receipts \cup {receipt_row(c.api_key_id, receipt, NULL)}
                 /\ stored_for' = stored_for \cup {<<receipt.receipt_id, c.api_key_id>>}
                 /\ call' = [call EXCEPT ![w].pc = "link", ![w].next = 1,
                                         ![w].receipt = receipt]
           /\ next_receipt' = next_receipt + 1
    /\ UNCHANGED <<envvars, settings, conversations, usage_logs, receipt_logs,
                   last_call, held, verdict>>

\* one iteration of the loop of _link_receipt_to_logs; after the last one
\* the call returns (receipt, len(logs))
GenLink(w) ==
    /\ call[w].pc = "link"
    /\ LET c == call[w] IN
       /\ receipt_logs' = link_insert(receipt_logs, c.receipt.receipt_id, c.logs[c.next])
       /\ call' = [call EXCEPT
             ![w].next = c.next + 1,
             ![w].pc = IF c.next = Len(c.logs) THEN "done" ELSE "link",
             ![w].certified_count = IF c.next = Len(c.logs) THEN Len(c.logs) ELSE 0]
    /\ UNCHANGED <<envvars, settings, conversations, usage_logs, receipts, next_receipt,
                   last_call, stored_for, held, verdict>>

\* the response is delivered (200 with the receipt, or 400/500 with the
\* error); keep: the caller keeps the returned receipt
GenReturn(w, keep) ==
    /\ call[w].pc \in {"done", "failed"}
    /\ last_call' =
         IF call[w].pc = "failed" THEN last_call
         ELSE IF Mode(call[w].request) \in {"date_range", "since_last_receipt"}
         THEN [valid |-> TRUE, api_key_id |-> call[w].api_key_id,
               request |-> call[w].request,
               linked |-> {l.id : l \in SeqToSet(call[w].logs)}]
         ELSE NoLastCall
    /\ call' = [call EXCEPT ![w] = IdleCall]
    /\ IF keep /\ call[w].pc = "done"
       THEN /\ held' = [original |-> call[w].receipt, current |-> call[w].receipt]
            /\ verdict' = "none"
       ELSE UNCHANGED <<held, verdict>>
    /\ UNCHANGED <<envvars, settings, dbvars, stored_for>>

\* the request's task is cancelled at an await of the loop of
\* _link_receipt_to_logs: the receipt row and the link rows already inserted
\* stay (each statement commits on its own), the remaining ones are never
\* written and nothing is returned
Cancel(w) ==
    /\ call[w].pc = "link"
    /\ call' = [call EXCEPT ![w] = IdleCall]
    /\ UNCHANGED <<envvars, settings, dbvars, last_call, stored_for, held, verdict>>

\* the answer with every failure reported as a server error
generate_response_all_500(c) ==
    IF c.pc = "done"
    THEN [status_code |-> 200, certified_count |-> c.certified_count, detail |-> ""]
    ELSE [status_code |-> 500, certified_count |-> 0, detail |-> c.error]

\* POST /api/v1/receipts/generate: the answer to a call that is done or has
\* failed (ValueError: 400, any other exception: 500)
generate_response(c) ==
    IF c.pc = "done"
    THEN [status_code |-> 200, certified_count |-> c.certified_count, detail |-> ""]
    ELSE IF c.error \in {"Must specify one of", "No logs found matching the criteria"}
    THEN [status_code |-> 400, certified_count |-> 0, detail |-> c.error]
    ELSE [status_code |-> 500, certified_count |-> 0, detail |-> c.error]

----------------------------------------------------------------------------
(* preview_receipt *)

\* the selection with the usage_logs query of the batch modes left out
preview_selection_first_query(api_key_id, request) ==
    CASE Mode(request) = "conversation" ->
           fetch_conversation_logs(api_key_id, request.conversation_id)
      [] Mode(request) = "date_range" ->
           date_range_conversations(api_key_id, request.start_date, request.end_date)
      [] Mode(request) = "log_ids" -> ids_conversations(api_key_id, request.log_ids)
      [] OTHER -> uncertified_conversations(api_key_id)

\* the if/elif chain of preview_receipt: the lists the fetch of the request's
\* mode can return when nothing is written between its two queries
preview_selection(api_key_id, request) ==
    CASE Mode(request) = "conversation" ->
           fetch_conversation_logs(api_key_id, request.conversation_id)
      [] Mode(request) = "date_range" ->
           {a \o b :
              a \in date_range_conversations(api_key_id, request.start_date,
                                             request.end_date),
              b \in date_range_usage(api_key_id, request.start_date, request.end_date)}
      [] Mode(request) = "log_ids" ->
           {a \o b : a \in ids_conversations(api_key_id, request.log_ids),
                     b \in ids_usage(api_key_id, request.log_ids)}
      [] OTHER ->
           {a \o b : a \in uncertified_conversations(api_key_id),
                     b \in uncertified_usage(api_key_id)}

\* the dict preview_receipt returns for the fetched list
preview_of(logs) ==
    IF logs = <<>>
    THEN [total_logs |-> 0, total_cost |-> 0, total_tokens |-> 0,
          message |-> "No logs found matching the criteria"]
    ELSE [total_logs |-> Len(logs),
          total_conversations |-> Len(ids_of_type(logs, "conversation")),
          total_tokens |-> sum_input_tokens(logs) + sum_output_tokens(logs),
          total_cost |-> sum_cost(logs),
          by_model |-> aggregate(logs, "model"),
          by_alias |-> aggregate(logs, "alias"),
          receipt_type |-> IF Len(logs) = 1 THEN "single" ELSE "batch"]

\* POST /api/v1/receipts/preview, answered while the caller has no generate
\* call in progress: 400 for a request with no criterion, else 200 with the
\* statistics
Preview(w, o, request) ==
    /\ call[w].pc = "idle"
    /\ IF Mode(request) = "none"
       THEN call' = [call EXCEPT ![w].preview =
                [NoPreview EXCEPT !.valid = TRUE, !.api_key_id = o,
                     !.request = request, !.status_code = 400,
                     !.db = <<conversations, usage_logs, receipt_logs>>]]
       ELSE \E logs \in preview_selection(o, request) :
               call' = [call EXCEPT ![w].preview =
                  [valid |-> TRUE, api_key_id |-> o, request |-> request,
                   logs |-> logs, status_code |-> 200, body |-> preview_of(logs),
                   db |-> <<conversations, usage_logs, receipt_logs>>]]
    /\ UNCHANGED <<envvars, settings, dbvars, last_call, stored_for, held, verdict>>

----------------------------------------------------------------------------
(* generate_and_sign_receipt and store_receipt *)

\* the (input_cost, output_cost) pairs callers pass
CostSplits == {<<1, 2>>}

\* the Receipt generate_and_sign_receipt returns in the current state
signed_single(sh, split) ==
    LET unsigned == single_unsigned(new_receipt_id(next_receipt + 1), receipt_now,
                       OrDefault(sh.alias), "default", "", sh.provider, sh.model,
                       sh.input_tokens, sh.output_tokens, split[1], split[2])
    IN  signed(unsigned, issue_signature(unsigned))

\* keep: the caller keeps the returned receipt
generate_and_sign_receipt(api_key_id, sh, split, keep) ==
    /\ SigningConfigured
    /\ Cardinality(receipts) < MaxReceipts
    /\ LET signed_receipt == signed_single(sh, split) IN
       /\ receipts' = receipts \cup {receipt_row(api_key_id, signed_receipt, NULL)}
       /\ stored_for' = stored_for \cup {<<signed_receipt.receipt_id, api_key_id>>}
       /\ held' = IF keep THEN [original |-> signed_receipt, current |-> signed_receipt]
                  ELSE held
    /\ next_receipt' = next_receipt + 1
    /\ verdict' = IF keep THEN "none" ELSE verdict
    /\ UNCHANGED <<envvars, settings, conversations, usage_logs, receipt_logs, call, last_call>>

\* receipts a client presents to POST /api/v1/receipts/: one that a service
\* holding key k1 signed through POST /issue under an identifier of the
\* client's choosing, and the same with total_cost changed after signing
ExternalReceipts ==
    LET unsigned == single_unsigned(new_receipt_id(100), 1, "ext", "default", "",
                                    "openai", "gpt-4o", 2, 1, 1, 2)
        issued == signed(unsigned,
                         ed25519_sign("k1", canonicalize_bytes(WithIsoTimestamp(unsigned))))
    IN  {issued, [issued EXCEPT !.total_cost = 9]}

\* the receipts table rejects a second row with the same receipt_id
DuplicateReceipt(receipt_id) == \E r \in receipts : r.receipt_id = receipt_id

\* the receipt stored without the signature check
store_receipt_unverified(api_key_id, receipt) ==
    /\ Cardinality(receipts) < MaxReceipts
    /\ ~DuplicateReceipt(receipt.receipt_id)
    /\ receipts' = receipts \cup {receipt_row(api_key_id, receipt, NULL)}
    /\ stored_for' = stored_for \cup {<<receipt.receipt_id, api_key_id>>}
    /\ UNCHANGED <<envvars, settings, conversations, usage_logs, receipt_logs, next_receipt,
                   call, last_call, held, verdict>>

\* ReceiptsService.store_receipt: `if not self._verify_signature(receipt):
\* raise ValueError`, then _store_receipt
store_receipt(api_key_id, receipt) ==
    /\ Cardinality(receipts) < MaxReceipts
    /\ verify_signature(receipt)
    /\ ~DuplicateReceipt(receipt.receipt_id)
    /\ receipts' = receipts \cup {receipt_row(api_key_id, receipt, NULL)}
    /\ stored_for' = stored_for \cup {<<receipt.receipt_id, api_key_id>>}
    /\ UNCHANGED <<envvars, settings, conversations, usage_logs, receipt_logs, next_receipt,
                   call, last_call, held, verdict>>

----------------------------------------------------------------------------
(* The system *)

----------------------------------------------------------------------------
(* MCP servers (routers/mcp.py, services/mcp_service.py) *)

MaxServers == 2

ServerIds == 1..MaxServers

NoResponse == [op |-> "none", api_key |-> "", server_id |-> 0, status_code |-> 0]

NoMcp == [servers |-> {}, tools |-> {}, resources |-> {}, prompts |-> {},
          response |-> NoResponse]

\* MCPServerUpdate bodies: a new name, or no field at all
ServerUpdates == {[name |-> "Renamed"], [name |-> ""]}

\* bodies of POST /servers/{id}/refresh
CapabilityBodies ==
    { [tools |-> {"t1"}, resources |-> {}, prompts |-> {}],
      [tools |-> {}, resources |-> {"r1"}, prompts |-> {"p1"}] }

\* MCPService.get_server(server_id, api_key_id=...): the rows
\* WHERE id = $1 AND api_key_id = $2
mcp_get_server(server_id, api_key_id) ==
    {sv \in mcp.servers : sv.id = server_id /\ sv.api_key_id = api_key_id}

\* MCPService.update_server: UPDATE mcp_client.servers SET ... WHERE id = $n
mcp_update_server(servers, server_id, update) ==
    {IF sv.id = server_id THEN [sv EXCEPT !.name = update.name] ELSE sv :
        sv \in servers}

\* MCPService.delete_server: DELETE FROM mcp_client.servers WHERE id = $1
mcp_delete_server(servers, server_id) == {sv \in servers : sv.id # server_id}

\* the rows of a capability table after the DELETE and the INSERTs of
\* refresh_server_capabilities
mcp_replace(rows, server_id, names) ==
    {r \in rows : r.server_id # server_id}
        \cup {[server_id |-> server_id, name |-> n] : n \in names}

Respond(op, api_key, server_id, status_code) ==
    [op |-> op, api_key |-> api_key, server_id |-> server_id,
     status_code |-> status_code]

\* POST /servers: the row is inserted, then get_server(server_id) is called
\* with neither api_key_id nor user and project, raises ValueError, and the
\* handler answers 500
McpCreateServer(api_key) ==
    /\ Cardinality(mcp.servers) < MaxServers
    /\ LET id == Cardinality(mcp.servers) + 1 IN
       mcp' = [mcp EXCEPT
                 !.servers = @ \cup {[id |-> id, api_key_id |-> api_key,
                                      name |-> "Original Name",
                                      capabilities |-> <<0, 0, 0>>]},
                 !.response = Respond("create", api_key, id, 500)]
    /\ UNCHANGED <<settings, dbvars, call, last_call, stored_for, held, verdict,
                   key_file, keypair, canon>>

\* GET /servers/{server_id}
McpGetServer(api_key, server_id) ==
    /\ mcp' = [mcp EXCEPT !.response =
                 Respond("get", api_key, server_id,
                         IF mcp_get_server(server_id, api_key) = {} THEN 404 ELSE 200)]
    /\ UNCHANGED <<settings, dbvars, call, last_call, stored_for, held, verdict,
                   key_file, keypair, canon>>

\* PATCH /servers/{server_id}: update_server(server_id, ...) without the
\* caller, 404 if it returned False (no field given); then
\* MCPServer(**get_server(server_id, api_key_id=api_key)), which raises
\* TypeError (500) when the caller does not own the server
McpUpdateServer(api_key, server_id, update) ==
    /\ IF update.name = ""
       THEN mcp' = [mcp EXCEPT !.response = Respond("update", api_key, server_id, 404)]
       ELSE mcp' = [mcp EXCEPT
                      !.servers = mcp_update_server(@, server_id, update),
                      !.response =
                          Respond("update", api_key, server_id,
                                  IF mcp_get_server(server_id, api_key) = {}
                                  THEN 500 ELSE 200)]
    /\ UNCHANGED <<settings, dbvars, call, last_call, stored_for, held, verdict,
                   key_file, keypair, canon>>

\* DELETE /servers/{server_id}: delete_server(server_id) without the caller
\* always returns True; cascade: whether the capability rows of the server go
\* with it (the schema is not part of the service)
McpDeleteServer(api_key, server_id, cascade) ==
    /\ mcp' = [mcp EXCEPT
                 !.servers = mcp_delete_server(@, server_id),
                 !.tools = IF cascade THEN mcp_replace(@, server_id, {}) ELSE @,
                 !.resources = IF cascade THEN mcp_replace(@, server_id, {}) ELSE @,
                 !.prompts = IF cascade THEN mcp_replace(@, server_id, {}) ELSE @,
                 !.response = Respond("delete", api_key, server_id, 200)]
    /\ UNCHANGED <<settings, dbvars, call, last_call, stored_for, held, verdict,
                   key_file, keypair, canon>>

\* POST /servers/{server_id}/refresh: refresh_server_capabilities(server_id,
\* ...) without the caller, in one transaction; then get_server with the
\* caller, 404 if it finds nothing
McpRefreshServer(api_key, server_id, body) ==
    /\ mcp' = [mcp EXCEPT
                 !.tools = mcp_replace(@, server_id, body.tools),
                 !.resources = mcp_replace(@, server_id, body.resources),
                 !.prompts = mcp_replace(@, server_id, body.prompts),
                 !.servers =
                     {IF sv.id = server_id
                      THEN [sv EXCEPT !.capabilities =
                               <<Cardinality(body.tools), Cardinality(body.resources),
                                 Cardinality(body.prompts)>>]
                      ELSE sv : sv \in @},
                 !.response =
                     Respond("refresh", api_key, server_id,
                             IF mcp_get_server(server_id, api_key) = {}
                             THEN 404 ELSE 200)]
    /\ UNCHANGED <<settings, dbvars, call, last_call, stored_for, held, verdict,
                   key_file, keypair, canon>>

\* no payload has been dumped
NoCanon == [input |-> NoReceipt, items |-> <<>>, swaps |-> 0, bytes |-> <<>>]

\* the keys of one keypair, the private key of one keypair with the public
\* key of another or with no public key, or no keys
KeyConfigs ==
    { [receipts_private_key_base64 |-> "k1", receipts_public_key_base64 |-> "k1"],
      [receipts_private_key_base64 |-> "k1", receipts_public_key_base64 |-> "k2"],
      [receipts_private_key_base64 |-> "k1", receipts_public_key_base64 |-> NoKey],
      [receipts_private_key_base64 |-> NoKey, receipts_public_key_base64 |-> NoKey] }

Init ==
    /\ settings \in KeyConfigs
    /\ conversations = {}
    /\ usage_logs = {}
    /\ receipts = {}
    /\ receipt_logs = {}
    /\ next_receipt = 0
    /\ call = [w \in Workers |-> IdleCall]
    /\ last_call = NoLastCall
    /\ stored_for = {}
    /\ held = [original |-> NoReceipt, current |-> NoReceipt]
    /\ verdict = "none"
    /\ key_file = Absent
    /\ keypair = NoKeypair
    /\ canon = NoCanon
    /\ mcp = NoMcp

\* on-demand certification: requests are served one at a time by one
\* worker, every owner, every mode
Next ==
    \/ \E o \in Owners, sh \in LogShapes : LogConversation(o, sh)
    \/ \E o \in Owners, sh \in LogShapes, cid \in {NULL} \cup RecordIds : LogUsage(o, sh, cid)
    \/ \E o \in Owners, r \in Requests : GenStart("w1", o, r)
    \/ GenUsageQuery("w1")
    \/ GenCreate("w1")
    \/ GenLink("w1")
    \/ GenReturn("w1", FALSE)

Spec == Init /\ [][Next]_vars

\* the requests served next to the other ways of storing a receipt
StoreRequests == {ByConversation(1), SinceLastReceipt}

\* the receipt store: receipts come from generate_and_sign_receipt, from
\* store_receipt and from on-demand generation, for every owner
NextStore ==
    \/ \E o \in Owners, sh \in LogShapes : LogConversation(o, sh)
    \/ \E o \in Owners, sh \in LogShapes : LogUsage(o, sh, NULL)
    \/ \E o \in Owners, r \in StoreRequests : GenStart("w1", o, r)
    \/ GenUsageQuery("w1")
    \/ GenCreate("w1")
    \/ GenLink("w1")
    \/ GenReturn("w1", FALSE)
    \/ \E o \in Owners, sh \in LogShapes, split \in CostSplits :
          generate_and_sign_receipt(o, sh, split, FALSE)
    \/ \E o \in Owners, receipt \in ExternalReceipts : store_receipt(o, receipt)

SpecStore == Init /\ [][NextStore]_vars

\* the requests of the two modes that rest on the anti-join
AntiJoinRequests == {SinceLastReceipt, ByDateRange(1, MaxRecords)}

\* two workers serve requests of one owner in the two anti-join modes
\* concurrently; their database statements interleave
NextConc ==
    \/ \E sh \in LogShapes : LogConversation("key-1", sh)
    \/ \E sh \in LogShapes : LogUsage("key-1", sh, NULL)
    \/ \E w \in Workers, r \in AntiJoinRequests : GenStart(w, "key-1", r)
    \/ \E w \in Workers : GenUsageQuery(w)
    \/ \E w \in Workers : GenCreate(w)
    \/ \E w \in Workers : GenLink(w)
    \/ \E w \in Workers : GenReturn(w, FALSE)

SpecConc == Init /\ [][NextConc]_vars

\* requests with no criterion, with part of a date range only, and with
\* more than one criterion
OddRequests ==
    { NoRequest,
      [NoRequest EXCEPT !.start_date = 1],
      [ByConversation(1) EXCEPT !.since_last_receipt = TRUE],
      [ByDateRange(1, MaxRecords) EXCEPT !.log_ids = {1}],
      [ByIds({2}) EXCEPT !.since_last_receipt = TRUE],
      SinceLastReceipt }

\* one owner sends well-formed and odd requests, served one at a time
NextValidate ==
    \/ \E sh \in LogShapes : LogConversation("key-1", sh)
    \/ \E sh \in LogShapes : LogUsage("key-1", sh, NULL)
    \/ \E r \in OddRequests : GenStart("w1", "key-1", r)
    \/ GenUsageQuery("w1")
    \/ GenCreate("w1")
    \/ GenLink("w1")
    \/ GenReturn("w1", FALSE)

SpecValidate == Init /\ [][NextValidate]_vars

\* one owner previews and generates, one request at a time
NextPreview ==
    \/ \E sh \in LogShapes : LogConversation("key-1", sh)
    \/ \E sh \in LogShapes : LogUsage("key-1", sh, NULL)
    \/ \E r \in Requests : Preview("w1", "key-1", r)
    \/ \E r \in Requests : GenStart("w1", "key-1", r)
    \/ GenUsageQuery("w1")
    \/ GenCreate("w1")
    \/ GenLink("w1")
    \/ GenReturn("w1", FALSE)

SpecPreview == Init /\ [][NextPreview]_vars

\* one owner asks for since-last-receipt receipts, one request at a time;
\* a request can be cancelled while it writes its link rows
NextCancel ==
    \/ \E sh \in LogShapes : LogConversation("key-1", sh)
    \/ \E sh \in LogShapes : LogUsage("key-1", sh, NULL)
    \/ GenStart("w1", "key-1", SinceLastReceipt)
    \/ GenUsageQuery("w1")
    \/ GenCreate("w1")
    \/ GenLink("w1")
    \/ Cancel("w1")
    \/ GenReturn("w1", FALSE)

SpecCancel == Init /\ [][NextCancel]_vars

\* start-up: the settings come from the environment, the key file is
\* whatever is on disk
InitKeys ==
    /\ settings \in KeyConfigs
    /\ conversations = {}
    /\ usage_logs = {}
    /\ receipts = {}
    /\ receipt_logs = {}
    /\ next_receipt = 0
    /\ call = [w \in Workers |-> IdleCall]
    /\ last_call = NoLastCall
    /\ stored_for = {}
    /\ held = [original |-> NoReceipt, current |-> NoReceipt]
    /\ verdict = "none"
    /\ key_file \in KeyFiles
    /\ keypair = NoKeypair
    /\ canon = NoCanon
    /\ mcp = NoMcp

NextKeys ==
    \/ \E given \in BOOLEAN : LoadKeypair(given)
    \/ \E given \in BOOLEAN : ensure_receipt_keys(given)

SpecKeys == InitKeys /\ [][NextKeys]_vars

MaxSwaps == 2

\* unsigned receipts whose payload is canonicalized
CanonInputs ==
    { single_unsigned(new_receipt_id(1), 1, "chat", "default", "", "openai",
                      "gpt-4o", 2, 1, 1, 2),
      single_unsigned(new_receipt_id(2), 2, "default", "prod", "sha256:ab",
                      "unknown", "batch:2 calls", 4, 2, 0, 0) }

\* payload = unsigned.model_dump(), with the timestamp as its ISO string
DumpPayload(unsigned) ==
    /\ canon = NoCanon
    /\ mcp = NoMcp
    /\ canon' = [input |-> unsigned,
                 items |-> dict_items(WithIsoTimestamp(model_dump(unsigned, {})),
                                      DeclarationOrder),
                 swaps |-> 0, bytes |-> <<>>]
    /\ UNCHANGED <<settings, dbvars, call, last_call, stored_for, held, verdict,
                   key_file, keypair, mcp>>

\* the same dict built with two of its members inserted in the other order
ReorderPayload(i, j) ==
    /\ canon # NoCanon
    /\ canon.swaps < MaxSwaps
    /\ i < j
    /\ canon' = [canon EXCEPT
                   !.items = [canon.items EXCEPT ![i] = canon.items[j],
                                                 ![j] = canon.items[i]],
                   !.swaps = canon.swaps + 1,
                   !.bytes = <<>>]
    /\ UNCHANGED <<settings, dbvars, call, last_call, stored_for, held, verdict,
                   key_file, keypair, mcp>>

\* _canonicalize_bytes(payload)
CanonicalizePayload ==
    /\ canon # NoCanon
    /\ canon' = [canon EXCEPT !.bytes = rfc8785_dumps(canon.items)]
    /\ UNCHANGED <<settings, dbvars, call, last_call, stored_for, held, verdict,
                   key_file, keypair, mcp>>

NextCanon ==
    \/ \E u \in CanonInputs : DumpPayload(u)
    \/ \E i \in 1..Len(DeclarationOrder), j \in 1..Len(DeclarationOrder) :
          ReorderPayload(i, j)
    \/ CanonicalizePayload

\* nothing is stored and no payload has been dumped; the service holds one
\* keypair
InitCanon ==
    /\ Init
    /\ settings.receipts_private_key_base64 = settings.receipts_public_key_base64
    /\ SigningConfigured

SpecCanon == InitCanon /\ [][NextCanon]_vars

NextMcp ==
    \/ \E o \in Owners : McpCreateServer(o)
    \/ \E o \in Owners, id \in ServerIds : McpGetServer(o, id)
    \/ \E o \in Owners, id \in ServerIds, u \in ServerUpdates :
          McpUpdateServer(o, id, u)
    \/ \E o \in Owners, id \in ServerIds, cascade \in BOOLEAN :
          McpDeleteServer(o, id, cascade)
    \/ \E o \in Owners, id \in ServerIds, b \in CapabilityBodies :
          McpRefreshServer(o, id, b)

SpecMcp == InitCanon /\ [][NextMcp]_vars

----------------------------------------------------------------------------
(* A client holding a receipt: tampering and verification *)

TokenValues == 0..4
CostValues == 0..4
StringValues == {"", "default", "chat", "openai", "gpt-4o", "unknown", "evil"}

\* the values a client can write into a signed field
FieldValues(f) ==
    CASE f \in {"prompt_tokens", "completion_tokens", "total_tokens"} -> TokenValues
      [] f \in {"input_cost", "output_cost", "total_cost"} -> CostValues
      [] f = "receipt_id" -> {new_receipt_id(n) : n \in 0..(MaxReceipts + 1)}
      [] f = "timestamp" -> {[t |-> t, tzinfo |-> z] :
                                t \in 1..(MaxReceipts + 1), z \in {UTC, Naive}}
      [] OTHER -> StringValues

\* the client changes one signed field of the receipt it was given and keeps
\* the signature
Tamper(f, v) ==
    /\ held.original # NoReceipt
    /\ held.current = held.original
    /\ v # held.current[f]
    /\ held' = [held EXCEPT !.current[f] = v]
    /\ verdict' = "none"
    /\ UNCHANGED <<envvars, settings, dbvars, call, last_call, stored_for>>

\* the values a client can write into a field that only BatchReceipt has
BatchFieldValues(f) ==
    CASE f = "receipt_type" -> {"single", "batch"}
      [] f = "batch_summary" -> {NoSummary}
      [] f = "description" -> {NoDescription, "edited"}
      [] OTHER -> {NoTags, <<"audit">>}

\* the client edits or redacts batch metadata of the receipt it was given
Redact(f, v) ==
    /\ held.original # NoReceipt
    /\ held.current = held.original
    /\ f \in DOMAIN held.current
    /\ v # held.current[f]
    /\ held' = [held EXCEPT !.current[f] = v]
    /\ verdict' = "none"
    /\ UNCHANGED <<envvars, settings, dbvars, call, last_call, stored_for>>

\* the signatures a client can put in place of the one it was given: none,
\* another scheme's prefix, a string that is not base64url, a signature made
\* with another key, a signature of other bytes
ForgedSignatures(sig) ==
    { NoSignature,
      [sig EXCEPT !.prefix = "rsa:"],
      [sig EXCEPT !.decodable = FALSE],
      ed25519_sign("k2", sig.msg),
      ed25519_sign(sig.key, <<>>) }

\* the client replaces the signature of the receipt it was given
Forge(sig) ==
    /\ held.original # NoReceipt
    /\ held.current = held.original
    /\ sig # held.current.signature
    /\ held' = [held EXCEPT !.current.signature = sig]
    /\ verdict' = "none"
    /\ UNCHANGED <<envvars, settings, dbvars, call, last_call, stored_for>>

\* POST /api/v1/receipts/verify
verify_receipt(receipt) ==
    [status_code |-> 200, receipt_id |-> receipt.receipt_id,
     valid |-> verify_signature(receipt), algorithm |-> "Ed25519"]

\* POST /api/v1/receipts/verify with the held receipt
VerifyHeld ==
    /\ verdict = "none"
    /\ verdict' = LET response == verify_receipt(held.current)
                  IN  IF response.status_code # 200 THEN "error"
                      ELSE IF response.valid THEN "valid" ELSE "invalid"
    /\ UNCHANGED <<envvars, settings, dbvars, call, last_call, stored_for, held>>

\* one owner obtains receipts from the service and verifies them, as given
\* or with one field changed
NextVerify ==
    \/ \E sh \in LogShapes : LogConversation("key-1", sh)
    \/ \E r \in {SinceLastReceipt} : GenStart("w1", "key-1", r)
    \/ GenUsageQuery("w1")
    \/ GenCreate("w1")
    \/ GenLink("w1")
    \/ GenReturn("w1", TRUE)
    \/ \E sh \in LogShapes, split \in CostSplits :
          generate_and_sign_receipt("key-1", sh, split, TRUE)
    \/ \E f \in SignedFields : \E v \in FieldValues(f) : Tamper(f, v)
    \/ \E f \in BatchOnlyFields : \E v \in BatchFieldValues(f) : Redact(f, v)
    \/ \E sig \in ForgedSignatures(held.current.signature) : Forge(sig)
    \/ VerifyHeld

SpecVerify == Init /\ [][NextVerify]_vars

----------------------------------------------------------------------------
(* Certification at most once *)

\* C1: for the date-range and the since-last-receipt mode, the second of two
\* generate calls of one owner with the same request, run one after the other
\* with no record logged in between, selects no record the first call linked
\* (call[w].prior holds the records the first call linked).
C1_AtMostOnceAcrossSequentialCalls ==
    \A w \in Workers :
        call[w].pc \in {"usage_query", "fetched", "link", "done"}
            => {l.id : l \in SeqToSet(call[w].logs)} \cap call[w].prior = {}

\* a second date-range call has returned a receipt covering a record the
\* first call linked
C1_SecondCallCertifiesAgain ==
    /\ call["w1"].pc = "done"
    /\ Mode(call["w1"].request) = "date_range"
    /\ \E l \in SeqToSet(call["w1"].logs) :
          /\ l.id \in call["w1"].prior
          /\ Cardinality({rl \in receipt_logs : rl.log_id = l.id}) = 2

\* C2: two concurrent since-last-receipt or date-range calls of one owner
\* never hold the same selected record, and no record is linked to two
\* receipts.
C2_SelectionAndLinkingAtomic ==
    /\ \A w1, w2 \in Workers :
          /\ w1 # w2
          /\ call[w1].pc \in {"usage_query", "fetched", "link", "done"}
          /\ call[w2].pc \in {"usage_query", "fetched", "link", "done"}
          => {l.id : l \in SeqToSet(call[w1].logs)}
                \cap {l.id : l \in SeqToSet(call[w2].logs)} = {}
    /\ \A a, b \in receipt_logs : a.log_id = b.log_id => a.receipt_id = b.receipt_id

\* two concurrent since-last-receipt calls have both returned, and a record
\* is linked to the receipts of both
C2_DoubleCertification ==
    /\ \A w \in Workers :
          call[w].pc = "done" /\ call[w].request = SinceLastReceipt
    /\ \E id \in RecordIds : \A w \in Workers :
          \E rl \in receipt_logs :
             rl.log_id = id /\ rl.receipt_id = call[w].receipt.receipt_id

\* C3: what since-last-receipt selection returns (in a generate call and in
\* get_uncertified_logs) are records of the calling owner with no row in the
\* link table, whichever mode wrote the rows that are there.
C3_SinceSelectsOnlyUnlinkedOwned ==
    /\ \A w \in Workers :
          /\ call[w].pc \in {"usage_query", "fetched"}
          /\ Mode(call[w].request) = "since_last_receipt"
          => \A l \in SeqToSet(call[w].logs) :
                /\ \E rec \in conversations \cup usage_logs :
                      rec.id = l.id /\ rec.api_key_id = call[w].api_key_id
                /\ ~\E rl \in receipt_logs : rl.log_id = l.id
    /\ \A o \in Owners : \A l \in get_uncertified_logs(o) :
          /\ \E rec \in conversations \cup usage_logs :
                rec.id = l.id /\ rec.api_key_id = o
          /\ ~\E rl \in receipt_logs : rl.log_id = l.id

\* a conversation certified by the single-conversation mode (one link, the
\* provider read from the conversation) is left out of a since-last-receipt
\* selection of its owner that found another record
C3_SinceSkipsConversationCertifiedBefore ==
    /\ call["w1"].pc = "fetched"
    /\ call["w1"].request = SinceLastReceipt
    /\ call["w1"].logs # <<>>
    /\ \E r \in receipts, c \in conversations :
          /\ r.api_key_id = call["w1"].api_key_id
          /\ c.api_key_id = call["w1"].api_key_id
          /\ r.provider # "unknown"
          /\ links_of(r.receipt_id) =
                {[receipt_id |-> r.receipt_id, log_id |-> c.id,
                  log_type |-> "conversation"]}
          /\ \A l \in SeqToSet(call["w1"].logs) : l.id # c.id

\* C4: when a generate call has succeeded, the link rows of the returned
\* receipt are exactly one per selected candidate, certified_count is their
\* number, and after a since-last-receipt call get_uncertified_logs reports
\* none of the candidates.
C4_SuccessLinksEveryCandidate ==
    \A w \in Workers :
        call[w].pc = "done" =>
            LET c == call[w]
                selected == {l.id : l \in SeqToSet(c.logs)}
            IN  /\ {rl.log_id : rl \in links_of(c.receipt.receipt_id)} = selected
                /\ \A l \in SeqToSet(c.logs) :
                      [receipt_id |-> c.receipt.receipt_id, log_id |-> l.id,
                       log_type |-> l.type] \in receipt_logs
                /\ c.certified_count = Cardinality(links_of(c.receipt.receipt_id))
                /\ Mode(c.request) = "since_last_receipt" =>
                      \A u \in get_uncertified_logs(c.api_key_id) : u.id \notin selected

\* a since-last-receipt call has returned a receipt for two records
C4_SinceCallCertifiedTwo ==
    /\ call["w1"].pc = "done"
    /\ call["w1"].request = SinceLastReceipt
    /\ call["w1"].certified_count = 2
    /\ Cardinality(links_of(call["w1"].receipt.receipt_id)) = 2
    /\ get_uncertified_logs(call["w1"].api_key_id) = {}

----------------------------------------------------------------------------
(* Explicit re-certification and owner isolation *)

\* C5: in explicit-ID mode each query of a call (d # c: the call takes the
\* step) returns the requested records of the
\* owner, linked or not; with a signing key the call then stores one more
\* receipt and adds one link row per selected record, and no step of any
\* operation removes or changes a receipt row or a link row.
C5_ByIdsRecertifies ==
    [][ /\ receipts \subseteq receipts'
        /\ receipt_logs \subseteq receipt_logs'
        /\ \A w \in Workers :
              LET c == call[w]
                  d == call'[w]
              IN  /\ (d # c /\ c.pc = "idle" /\ Mode(d.request) = "log_ids") =>
                        {l.id : l \in SeqToSet(d.logs)} =
                           {x.id : x \in {y \in conversations :
                               y.api_key_id = d.api_key_id /\ y.id \in d.request.log_ids}}
                  /\ (d # c /\ c.pc = "usage_query" /\ Mode(c.request) = "log_ids") =>
                        {l.id : l \in SeqToSet(d.logs)} =
                           {l.id : l \in SeqToSet(c.logs)} \cup
                           {x.id : x \in {y \in usage_logs :
                               y.api_key_id = c.api_key_id /\ y.id \in c.request.log_ids}}
                  /\ (/\ d # c /\ c.pc = "fetched" /\ Mode(c.request) = "log_ids"
                      /\ c.logs # <<>> /\ SigningConfigured) =>
                        /\ d.pc = "link"
                        /\ Cardinality(receipts') = Cardinality(receipts) + 1
                        /\ \E r \in receipts' \ receipts :
                              r.receipt_id = d.receipt.receipt_id
                  /\ (d # c /\ c.pc = "link" /\ Mode(c.request) = "log_ids") =>
                        /\ d.pc \in {"link", "done"}
                        /\ receipt_logs' \ receipt_logs =
                              {[receipt_id |-> c.receipt.receipt_id,
                                log_id |-> c.logs[c.next].id,
                                log_type |-> c.logs[c.next].type]}
      ]_vars

\* an explicit-ID call has returned a receipt for a conversation that an
\* earlier receipt, still stored, is linked to as well
C5_RecordInTwoReceipts ==
    /\ call["w1"].pc = "done"
    /\ Mode(call["w1"].request) = "log_ids"
    /\ \E l \in SeqToSet(call["w1"].logs), r \in receipts :
          /\ l.type = "conversation"
          /\ r.receipt_id # call["w1"].receipt.receipt_id
          /\ \E rl \in links_of(r.receipt_id) : rl.log_id = l.id
          /\ \E rl \in links_of(call["w1"].receipt.receipt_id) : rl.log_id = l.id

\* C6: get_receipt(receipt_id, owner) returns a receipt only when one was
\* stored under that identifier by that owner (stored_for records who stored
\* what), and list_receipts(owner) holds only such receipts.
C6_OwnerIsolation ==
    \A o \in Owners :
        /\ \A r \in receipts :
              get_receipt(r.receipt_id, o) # {} => <<r.receipt_id, o>> \in stored_for
        /\ \A r \in list_receipts(o) : <<r.receipt_id, o>> \in stored_for

\* both owners have stored a receipt, and neither can read the other's
C6_EachOwnerSeesOwnOnly ==
    \E a, b \in receipts :
        /\ a.api_key_id = "key-1" /\ b.api_key_id = "key-2"
        /\ get_receipt(a.receipt_id, "key-1") # {}
        /\ get_receipt(a.receipt_id, "key-2") = {}
        /\ get_receipt(b.receipt_id, "key-2") # {}
        /\ get_receipt(b.receipt_id, "key-1") = {}
        /\ \A r \in list_receipts("key-1") : r.receipt_id # b.receipt_id

\* the sum of field f over a set of rows
RECURSIVE SumField(_, _)
SumField(rows, f) ==
    IF rows = {} THEN 0
    ELSE LET r == CHOOSE x \in rows : TRUE IN r[f] + SumField(rows \ {r}, f)

\* C7: every selection holds only records of the calling owner, every link
\* row relates a receipt and a record of one owner, and the totals of a
\* generated receipt are the sums over the caller's own selected records.
C7_NoCrossOwnerCertification ==
    /\ \A w \in Workers : \A l \in SeqToSet(call[w].logs) :
          \E rec \in conversations \cup usage_logs :
             rec.id = l.id /\ rec.api_key_id = call[w].api_key_id
    /\ \A rl \in receipt_logs :
          \E r \in receipts, rec \in conversations \cup usage_logs :
             /\ r.receipt_id = rl.receipt_id
             /\ rec.id = rl.log_id
             /\ rec.api_key_id = r.api_key_id
    /\ \A w \in Workers :
          call[w].pc \in {"link", "done"} =>
             LET c == call[w]
                 selected == {l.id : l \in SeqToSet(c.logs)}
                 convs == {x \in conversations :
                              x.api_key_id = c.api_key_id /\ x.id \in selected}
                 usage == {x \in usage_logs :
                              x.api_key_id = c.api_key_id /\ x.id \in selected}
             IN  /\ c.receipt.prompt_tokens =
                       SumField(convs, "total_input_tokens") + SumField(usage, "input_tokens")
                 /\ c.receipt.completion_tokens =
                       SumField(convs, "total_output_tokens") + SumField(usage, "output_tokens")
                 /\ c.receipt.total_cost =
                       SumField(convs, "total_cost") + SumField(usage, "cost")

\* key-2 has asked for a receipt by the id of a conversation of key-1 and
\* has been given no record
C7_OtherOwnersConversationRequested ==
    /\ call["w1"].pc = "fetched"
    /\ call["w1"].api_key_id = "key-2"
    /\ Mode(call["w1"].request) = "conversation"
    /\ \E c \in conversations :
          c.id = call["w1"].request.conversation_id /\ c.api_key_id = "key-1"
    /\ \E u \in usage_logs : u.api_key_id = "key-2"
    /\ call["w1"].logs = <<>>

\* C8 as stated: get_logs_for_receipt for a receipt the caller does not own
\* returns an empty result without an error, the same as for a receipt_id
\* that no receipt has.
C8_OtherOwnersReceiptGivesEmptyResult ==
    \A r \in receipts, o \in Owners :
        get_receipt(r.receipt_id, o) = {} =>
            LET out == get_logs_for_receipt(r.receipt_id, o)
            IN  /\ out.error = ""
                /\ out.logs = {} /\ out.total = 0
                /\ \A n \in 0..(MaxReceipts + 1) :
                      (\A x \in receipts : x.receipt_id # new_receipt_id(n)) =>
                         get_logs_for_receipt(new_receipt_id(n), o) = out

\* C8 amended: get_logs_for_receipt for a receipt the caller does not own
\* raises the not-found error and returns no log, and the service and the
\* endpoint (404) answer exactly as for a receipt_id that no receipt has.
C8_OtherOwnersReceiptNotFound ==
    \A r \in receipts, o \in Owners :
        get_receipt(r.receipt_id, o) = {} =>
            LET out == get_logs_for_receipt(r.receipt_id, o)
            IN  /\ out.error = NotFoundOrDenied
                /\ out.logs = {} /\ out.total = 0
                /\ get_receipt_logs(r.receipt_id, o).status_code = 404
                /\ \A n \in 0..(MaxReceipts + 1) :
                      (\A x \in receipts : x.receipt_id # new_receipt_id(n)) =>
                         /\ get_logs_for_receipt(new_receipt_id(n), o) = out
                         /\ get_receipt_logs(new_receipt_id(n), o) =
                               get_receipt_logs(r.receipt_id, o)

\* key-2 reads the logs of its receipt; key-1 asking for the same receipt
\* gets 404
C8_OwnerReadsLogsOtherGets404 ==
    \E r \in receipts :
        /\ r.api_key_id = "key-2"
        /\ get_receipt_logs(r.receipt_id, "key-2").status_code = 200
        /\ get_receipt_logs(r.receipt_id, "key-2").total > 0
        /\ get_receipt_logs(r.receipt_id, "key-2").logs # {}
        /\ get_receipt_logs(r.receipt_id, "key-1").status_code = 404

----------------------------------------------------------------------------
(* Receipt arithmetic and tamper detection *)

\* C9: every receipt the service produces has total_tokens = prompt_tokens +
\* completion_tokens and total_cost = input_cost + output_cost: the receipt
\* a generate call holds, and every stored row the service generated itself.
C9_ReceiptArithmetic ==
    /\ \A w \in Workers :
          call[w].pc \in {"link", "done"} =>
             LET r == call[w].receipt
             IN  /\ r.total_tokens = r.prompt_tokens + r.completion_tokens
                 /\ r.total_cost = r.input_cost + r.output_cost
    /\ \A r \in receipts :
          r.receipt_id \notin {x.receipt_id : x \in ExternalReceipts} =>
             r.cost.total = r.cost.input + r.cost.output

\* a generate call has returned a receipt with a total cost and no cost parts
C9_BatchTotalWithoutParts ==
    /\ call["w1"].pc = "done"
    /\ call["w1"].receipt.total_cost > 0
    /\ call["w1"].receipt.input_cost = 0
    /\ call["w1"].receipt.output_cost = 0

\* C10: a receipt the service signed, with the value of one signed field
\* changed and the signature kept, is never reported valid.
C10_TamperedReceiptIsInvalid ==
    (/\ verdict # "none"
     /\ held.original.signature # NoSignature
     /\ \E f \in SignedFields : held.current[f] # held.original[f])
    => verdict = "invalid"

\* a batch receipt of the service with total_cost changed has been verified
\* and rejected
C10_ChangedTotalCostRejected ==
    /\ verdict = "invalid"
    /\ SigningConfigured
    /\ "batch_summary" \in DOMAIN held.original
    /\ verify_signature(held.original)
    /\ held.current = [held.original EXCEPT !.total_cost = 4]

----------------------------------------------------------------------------
(* Signing and verification *)

\* C11: a receipt as the service returned it (from generate_and_sign_receipt
\* or from on-demand generation, single or batch) verifies as true when the
\* configured public key belongs to the keypair that signed it, and as false
\* when it belongs to another keypair.
C11_SignVerifyRoundTrip ==
    (/\ verdict # "none"
     /\ held.original.signature # NoSignature
     /\ held.current = held.original)
    => (verdict = "valid" <=>
           settings.receipts_public_key_base64 = settings.receipts_private_key_base64)

\* a batch receipt over two records has been verified as returned, and is valid
C11_BatchReceiptVerified ==
    /\ verdict = "valid"
    /\ held.current = held.original
    /\ "receipt_type" \in DOMAIN held.original
    /\ held.original.receipt_type = "batch"
    /\ held.original.batch_summary.total_calls = 2

\* C12: the verification result of a receipt that carries the batch-only
\* fields is the same whatever values receipt_type, batch_summary,
\* description and tags take, the signed fields and the signature being
\* equal; a receipt of the service whose batch metadata the client changed
\* is valid exactly when the receipt as returned is (the configured public
\* key belongs to the signing keypair).
C12_BatchMetadataNotSigned ==
    /\ BatchOnlyFields \subseteq DOMAIN held.current =>
          \A ty \in BatchFieldValues("receipt_type"),
             su \in BatchFieldValues("batch_summary"),
             de \in BatchFieldValues("description"),
             ta \in BatchFieldValues("tags") :
                verify_signature([held.current EXCEPT !.receipt_type = ty,
                                     !.batch_summary = su, !.description = de,
                                     !.tags = ta])
                   = verify_signature(held.current)
    /\ (/\ verdict # "none"
        /\ held.original.signature # NoSignature
        /\ \A f \in SignedFields \cup {"signature"} :
              held.current[f] = held.original[f])
       => (verdict = "valid" <=>
              settings.receipts_public_key_base64 = settings.receipts_private_key_base64)

\* a batch receipt whose summary has been blanked has been verified, and is
\* valid
C12_RedactedSummaryStillValid ==
    /\ verdict = "valid"
    /\ "batch_summary" \in DOMAIN held.original
    /\ held.original.batch_summary.total_calls = 2
    /\ held.current = [held.original EXCEPT !.batch_summary = NoSummary]

\* C13: verification answers with a boolean: the endpoint's status is 200,
\* and valid is false for a receipt whose signature is missing, has another
\* prefix, cannot be decoded or does not match, and for every receipt when
\* no public key is configured.
C13_VerificationFailureIsFalse ==
    /\ verdict \in {"none", "valid", "invalid"}
    /\ \A r \in {held.current, held.original} \cup ExternalReceipts :
          (\/ r.signature = NoSignature
           \/ r.signature.prefix # "ed25519:"
           \/ ~r.signature.decodable
           \/ settings.receipts_public_key_base64 = NoKey
           \/ r.signature.key # settings.receipts_public_key_base64
           \/ r.signature.msg # canonicalize_bytes(WithIsoTimestamp(
                                   model_dump(r, {"signature"} \cup BatchOnlyFields))))
          => /\ verify_signature(r) = FALSE
             /\ verify_receipt(r).status_code = 200
             /\ verify_receipt(r).valid = FALSE
             /\ (r = held.current /\ verdict # "none") => verdict = "invalid"

\* a receipt of the service whose signature was given another prefix has
\* been verified under the matching public key, and is invalid
C13_WrongPrefixRejected ==
    /\ verdict = "invalid"
    /\ settings.receipts_public_key_base64 = settings.receipts_private_key_base64
    /\ verify_signature(held.original)
    /\ held.current = [held.original EXCEPT !.signature.prefix = "rsa:"]

----------------------------------------------------------------------------
(* Failures of generate *)

\* C14: a generate call gets past validation only with exactly one selection
\* criterion in its request: a call that has selected, stored or linked has
\* exactly one of conversation_id, date range, log_ids, since_last_receipt.
C14_ExactlyOneCriterion ==
    \A w \in Workers :
        call[w].pc \in {"usage_query", "fetched", "link", "done"} =>
            LET r == call[w].request
            IN  (IF r.conversation_id # NULL THEN 1 ELSE 0)
                + (IF r.start_date # NULL /\ r.end_date # NULL THEN 1 ELSE 0)
                + (IF r.log_ids # {} THEN 1 ELSE 0)
                + (IF r.since_last_receipt THEN 1 ELSE 0) = 1

\* a request with conversation_id and since_last_receipt has been served as
\* a single-conversation request: a receipt is stored and linked
C14_TwoCriteriaCertified ==
    /\ call["w1"].pc = "done"
    /\ call["w1"].request.conversation_id # NULL
    /\ call["w1"].request.since_last_receipt
    /\ \E r \in receipts : r.receipt_id = call["w1"].receipt.receipt_id
    /\ links_of(call["w1"].receipt.receipt_id) # {}

\* C15: a generate call whose selection is empty fails with "No logs found
\* matching the criteria", answered with status 400, and that step leaves
\* the receipts table and the link table as they are; no stored receipt of
\* a generate call certifies zero records.
C15_NoMatchStoresNothing ==
    [][ /\ \A w \in Workers :
              (/\ call[w].pc = "fetched"
               /\ call[w].logs = <<>>
               /\ call'[w] # call[w])
              => /\ call'[w].pc = "failed"
                 /\ call'[w].error = "No logs found matching the criteria"
                 /\ generate_response(call'[w]).status_code = 400
                 /\ receipts' = receipts
                 /\ receipt_logs' = receipt_logs
        /\ \A r \in receipts' : r.batch_summary.total_calls >= 1
      ]_vars

\* a generate call has failed for want of a matching record while records
\* exist, and nothing is stored
C15_NoMatchAmongRecords ==
    /\ call["w1"].pc = "failed"
    /\ call["w1"].error = "No logs found matching the criteria"
    /\ conversations # {} /\ usage_logs # {}
    /\ receipts = {} /\ receipt_logs = {}

----------------------------------------------------------------------------
(* Preview *)

\* the tables a preview or a selection reads
Tables == <<conversations, usage_logs, receipt_logs>>

\* C16: a preview changes no table, no key and no receipt counter; and a
\* generate call for the same owner and request that reaches its receipt
\* while the tables are as the preview read them has selected the records
\* the preview counted: it fails for want of records exactly when the
\* preview reported none, and otherwise signs the preview's totals, buckets
\* and receipt type.
C16_PreviewSelectsAsGenerateAndHasNoEffect ==
    [][ \A w \in Workers :
          /\ (/\ call'[w].preview # call[w].preview
              /\ call'[w].preview.valid
              /\ call'[w].pc = "idle")
             => UNCHANGED <<settings, dbvars, last_call, stored_for, held, verdict>>
          /\ LET c == call[w]
                 p == c.preview
             IN  (/\ c.pc = "fetched"
                  /\ call'[w] # c
                  /\ p.valid
                  /\ p.api_key_id = c.api_key_id
                  /\ p.request = c.request
                  /\ p.db = Tables)
                 => /\ p.status_code = 200
                    /\ {<<l.type, l.id>> : l \in SeqToSet(p.logs)}
                         = {<<l.type, l.id>> : l \in SeqToSet(c.logs)}
                    /\ p.body.total_logs = Len(c.logs)
                    /\ (p.body.total_logs = 0) <=>
                         (call'[w].error = "No logs found matching the criteria")
                    /\ call'[w].pc = "link" =>
                         LET r == call'[w].receipt IN
                         /\ p.body.receipt_type = r.receipt_type
                         /\ p.body.total_tokens = r.total_tokens
                         /\ p.body.total_cost = r.total_cost
                         /\ p.body.total_conversations
                              = r.batch_summary.total_conversations
                         /\ p.body.by_model = r.batch_summary.by_model
                         /\ p.body.by_alias = r.batch_summary.by_alias
      ]_vars

\* a previewed since-last-receipt request of two records, one of each kind,
\* is being certified while the tables are as the preview read them
C16_PreviewedThenGenerated ==
    LET c == call["w1"] IN
    /\ c.pc = "link"
    /\ c.preview.valid
    /\ c.preview.request = c.request
    /\ c.request = SinceLastReceipt
    /\ c.preview.db = Tables
    /\ c.preview.body.total_logs = 2
    /\ c.preview.body.total_conversations = 1

----------------------------------------------------------------------------
(* Shape of the generated receipt *)

\* C17: the receipt of a generate call is "single" exactly when one record
\* was selected and "batch" otherwise; the alias, provider and model that
\* are signed for a single receipt are those of the selected record, and
\* its prompt and completion tokens are the record's input and output
\* tokens.
C17_SingleIffOneCandidate ==
    \A w \in Workers :
        call[w].pc \in {"link", "done"} =>
            LET r == call[w].receipt
                logs == call[w].logs
                signed_members == SeqToSet(r.signature.msg)
            IN  /\ r.receipt_type \in {"single", "batch"}
                /\ r.receipt_type = "single" <=> Len(logs) = 1
                /\ r.receipt_type = "single" =>
                     /\ r.alias = logs[1].alias
                     /\ r.provider = logs[1].provider
                     /\ r.model = logs[1].model
                     /\ r.prompt_tokens = logs[1].input_tokens
                     /\ r.completion_tokens = logs[1].output_tokens
                     /\ {<<"alias", logs[1].alias>>, <<"provider", logs[1].provider>>,
                         <<"model", logs[1].model>>,
                         <<"prompt_tokens", logs[1].input_tokens>>,
                         <<"completion_tokens", logs[1].output_tokens>>}
                          \subseteq signed_members

\* a generate call has returned a single receipt for one usage log
C17_SingleReceiptOfUsageLog ==
    /\ call["w1"].pc = "done"
    /\ Len(call["w1"].logs) = 1
    /\ call["w1"].logs[1].type = "usage"
    /\ call["w1"].receipt.receipt_type = "single"
    /\ call["w1"].receipt.model = "gpt-4o"

\* the sum of one member of the buckets of a by_model / by_alias dict
RECURSIVE SumBuckets(_, _)
SumBuckets(buckets, member) ==
    IF DOMAIN buckets = {} THEN 0
    ELSE LET k == CHOOSE x \in DOMAIN buckets : TRUE
         IN  buckets[k][member]
               + SumBuckets([x \in (DOMAIN buckets) \ {k} |-> buckets[x]], member)

\* C18: the batch summary of the n records a generate call selected has
\* total_calls = n, total_tokens = the sum of their input and output tokens,
\* total_conversations = the number of conversations among them; the calls
\* of the by_model buckets sum to n, as do those of the by_alias buckets,
\* and the tokens of each family of buckets sum to total_tokens.
C18_BatchSummaryTotals ==
    \A w \in Workers :
        call[w].pc \in {"link", "done"} =>
            LET logs == call[w].logs
                n == Len(logs)
                summary == call[w].receipt.batch_summary
            IN  /\ n >= 1
                /\ summary.total_calls = n
                /\ summary.total_tokens
                     = SumField(SeqToSet(logs), "input_tokens")
                         + SumField(SeqToSet(logs), "output_tokens")
                /\ summary.total_conversations
                     = Cardinality({i \in 1..n : logs[i].type = "conversation"})
                /\ SumBuckets(summary.by_model, "calls") = n
                /\ SumBuckets(summary.by_alias, "calls") = n
                /\ SumBuckets(summary.by_model, "tokens") = summary.total_tokens
                /\ SumBuckets(summary.by_alias, "tokens") = summary.total_tokens

\* a batch of a conversation and a usage log: two model buckets, one alias
\* bucket
C18_TwoModelBuckets ==
    /\ call["w1"].pc = "done"
    /\ Len(call["w1"].logs) = 2
    /\ Cardinality(DOMAIN call["w1"].receipt.batch_summary.by_model) = 2
    /\ Cardinality(DOMAIN call["w1"].receipt.batch_summary.by_alias) = 1

----------------------------------------------------------------------------
(* Cancellation *)

\* the stored receipts whose summary counts the record
CoveredBy(id, type) ==
    {r \in receipts :
        id \in SeqToSet(IF type = "conversation" THEN r.batch_summary.conversation_ids
                        ELSE r.batch_summary.log_ids)}

\* C19: when a since-last-receipt call has succeeded, whether or not an
\* earlier call was cancelled between its receipt insert and its last link
\* insert, every certified record is linked to exactly one receipt and is
\* counted in the totals of exactly one stored receipt.
C19_RetryRepairsCancelledCall ==
    call["w1"].pc = "done" =>
        \A rl \in receipt_logs :
            /\ Cardinality({x \in receipt_logs :
                              x.log_id = rl.log_id /\ x.log_type = rl.log_type}) = 1
            /\ Cardinality(CoveredBy(rl.log_id, rl.log_type)) = 1

\* the retry has succeeded and a stored receipt counts more records than are
\* linked to it
C19_ReceiptCountsUnlinkedRecords ==
    /\ call["w1"].pc = "done"
    /\ Cardinality(receipts) = 2
    /\ \E r \in receipts :
          r.batch_summary.total_calls > Cardinality(links_of(r.receipt_id))

----------------------------------------------------------------------------
(* Immutability *)

\* C20: no step removes or changes a stored receipt or a link row: the
\* receipts table and the link table only grow, and every stored receipt
\* keeps its owner, signed fields and signature, so that it reads the same
\* after the step as before.
C20_StoredReceiptsImmutable ==
    [][ /\ receipts \subseteq receipts'
        /\ receipt_logs \subseteq receipt_logs'
        /\ \A r \in receipts :
              \E x \in receipts' :
                 /\ x.receipt_id = r.receipt_id
                 /\ x.api_key_id = r.api_key_id
                 /\ x.signature = r.signature
                 /\ row_receipt(x) = row_receipt(r)
      ]_vars

\* a conversation certified by one receipt has been certified again by a
\* second receipt, and both receipts and both link rows are stored
C20_RecertifiedWithBothReceiptsKept ==
    /\ Cardinality(receipts) = 2
    /\ \E a \in receipt_logs, b \in receipt_logs :
          /\ a.log_id = b.log_id /\ a.log_type = b.log_type
          /\ a.receipt_id # b.receipt_id
          /\ \E r \in receipts : r.receipt_id = a.receipt_id
          /\ \E r \in receipts : r.receipt_id = b.receipt_id

----------------------------------------------------------------------------
(* Signing failures *)

\* C21: every stored receipt carries a well-formed Ed25519 signature over
\* the identifier and totals it is stored with, made with the configured
\* private key or verifying under the configured public key; with no
\* private key nothing is signed, so a generate call fails with "Signing key
\* not configured" only then, no link row exists, and whatever is stored
\* was supplied from outside and verified.
C21_NoReceiptStoredWithoutValidSignature ==
    /\ \A r \in receipts :
          /\ r.signature # NoSignature
          /\ r.signature.prefix = "ed25519:"
          /\ r.signature.decodable
          /\ r.signature.key # NoKey
          /\ r.signature.key \in {settings.receipts_private_key_base64,
                                  settings.receipts_public_key_base64}
          /\ {<<"receipt_id", r.receipt_id>>, <<"total_cost", r.cost.total>>,
              <<"prompt_tokens", r.tokens.input>>,
              <<"completion_tokens", r.tokens.output>>}
               \subseteq SeqToSet(r.signature.msg)
    /\ settings.receipts_private_key_base64 = NoKey =>
          /\ receipt_logs = {}
          /\ \A r \in receipts : r.signature.key = settings.receipts_public_key_base64
    /\ \A w \in Workers :
          (call[w].pc = "failed" /\ call[w].error = "Signing key not configured")
              => settings.receipts_private_key_base64 = NoKey

\* with no private key a generate call over existing records has failed and
\* nothing is stored or linked
C21_GenerateFailedWithoutKey ==
    /\ settings.receipts_private_key_base64 = NoKey
    /\ call["w1"].pc = "failed"
    /\ call["w1"].error = "Signing key not configured"
    /\ conversations # {}
    /\ receipts = {} /\ receipt_logs = {}

----------------------------------------------------------------------------
(* Key file *)

\* C22: a call of load_or_generate_keypair with the path of an existing key
\* file leaves the file as it is and either returns the first two lines of
\* the file or fails; it generates nothing.
C22_ExistingKeyFileLoadedOrRejected ==
    [][ (/\ keypair'.n # keypair.n
         /\ keypair'.given
         /\ key_file # Absent)
        => /\ key_file' = key_file
           /\ keypair'.status \in {"returned", "error"}
           /\ keypair'.status = "returned" =>
                /\ keypair'.private = split_lines(strip(key_file))[1]
                /\ keypair'.public = split_lines(strip(key_file))[2]
      ]_vars

\* a key file that existed with fewer than two lines has been replaced by a
\* newly generated keypair
C22_ShortKeyFileOverwritten ==
    /\ keypair.given
    /\ keypair.existed
    /\ keypair.status = "generated"
    /\ key_file = <<keypair.private, keypair.public>>

----------------------------------------------------------------------------
(* Canonical form *)

\* C23: the canonical bytes of a payload do not depend on the order in which
\* its members were inserted: they are the bytes of the payload in
\* declaration order, which is the message the service signs, so a signature
\* made over one order verifies over any other.
C23_CanonicalizationIgnoresFieldOrder ==
    canon.bytes # <<>> =>
        LET declared == dict_items(WithIsoTimestamp(canon.input), DeclarationOrder)
            message == canonicalize_bytes(WithIsoTimestamp(canon.input))
        IN  /\ [i \in 1..Len(canon.bytes) |-> canon.bytes[i][1]]
                 = [i \in 1..Len(message) |-> message[i][1]]
            /\ canon.bytes = rfc8785_dumps(declared)
            /\ canon.bytes = message
            /\ ed25519_verify("k1", canon.bytes, ed25519_sign("k1", message))

\* a payload whose members were inserted in another order than the declared
\* one has been canonicalized
C23_ReorderedPayloadCanonicalized ==
    /\ canon.swaps = MaxSwaps
    /\ canon.bytes # <<>>
    /\ canon.items # dict_items(WithIsoTimestamp(canon.input), DeclarationOrder)
    /\ canon.items[1][1] # "receipt_id"

----------------------------------------------------------------------------
(* MCP server isolation *)

\* C24: a get, update, delete or refresh of an existing server by a caller
\* who does not own it is answered 404 and leaves the servers and their
\* tools, resources and prompts as they were.
C24_McpServersIsolatedByOwner ==
    [][ (/\ mcp'.response # mcp.response
         /\ mcp'.response.op \in {"get", "update", "delete", "refresh"}
         /\ \E sv \in mcp.servers :
               /\ sv.id = mcp'.response.server_id
               /\ sv.api_key_id # mcp'.response.api_key)
        => /\ mcp'.response.status_code = 404
           /\ mcp'.servers = mcp.servers
           /\ mcp'.tools = mcp.tools
           /\ mcp'.resources = mcp.resources
           /\ mcp'.prompts = mcp.prompts
      ]_vars

\* a caller has deleted a server that another owner's tools belong to and
\* was answered 200
C24_OtherOwnersServerDeleted ==
    /\ mcp.response.op = "delete"
    /\ mcp.response.api_key = "key-2"
    /\ mcp.response.status_code = 200
    /\ mcp.servers = {}
    /\ \E t \in mcp.tools : t.server_id = mcp.response.server_id

----------------------------------------------------------------------------
(* Order and extent of the batch selections *)

\* C25: the list a date-range or since-last-receipt call works on is ordered
\* newest first over the whole list, conversations and usage logs alike.
C25_CandidatesNewestFirst ==
    \A w \in Workers :
        (/\ call[w].pc \in {"fetched", "link", "done"}
         /\ Mode(call[w].request) \in {"date_range", "since_last_receipt"})
        => \A i, j \in 1..Len(call[w].logs) :
              i < j => call[w].logs[i].timestamp >= call[w].logs[j].timestamp

\* a since-last-receipt call has fetched a conversation followed by a usage
\* log that is newer than the conversation
C25_OlderConversationFirst ==
    LET c == call["w1"] IN
    /\ c.pc = "fetched"
    /\ c.request = SinceLastReceipt
    /\ Len(c.logs) = 2
    /\ c.logs[1].type = "conversation" /\ c.logs[2].type = "usage"
    /\ c.logs[1].timestamp < c.logs[2].timestamp

\* C26: for every owner the records the since-last-receipt queries return
\* are the records the date-range queries return for an interval holding
\* every timestamp, less those with a link row; a usage log attached to a
\* conversation is returned by neither.
C26_SinceIsDateRangeMinusLinked ==
    \A o \in Owners :
        LET Ids(lists) == UNION {{<<l.type, l.id>> : l \in SeqToSet(x)} : x \in lists}
            since == Ids(uncertified_conversations(o)) \cup Ids(uncertified_usage(o))
            range == Ids(date_range_conversations(o, 1, MaxRecords))
                       \cup Ids(date_range_usage(o, 1, MaxRecords))
        IN  /\ since = {x \in range : NotInReceiptLogs(x[2], x[1])}
            /\ \A u \in usage_logs :
                  u.conversation_id # NULL =>
                      /\ <<"usage", u.id>> \notin since
                      /\ <<"usage", u.id>> \notin range

\* a since-last-receipt call has selected a usage log that is attached to a
\* conversation
C26_AttachedUsageLogSelected ==
    LET c == call["w1"] IN
    /\ c.pc = "fetched"
    /\ c.request = SinceLastReceipt
    /\ \E i \in 1..Len(c.logs) :
          /\ c.logs[i].type = "usage"
          /\ \E u \in usage_logs : u.id = c.logs[i].id /\ u.conversation_id # NULL

----------------------------------------------------------------------------
(* Descriptive fields of a batch receipt *)

\* C27: the receipt created from two or more candidates signs the model
\* "batch:<n> calls" with n the number of candidates, and the alias and the
\* provider it signs are those _create_batch_receipt would sign for the same
\* candidates in the opposite order.
C27_BatchFieldsIndependentOfOrder ==
    \A w \in Workers :
        (call[w].pc \in {"link", "done"} /\ Len(call[w].logs) >= 2)
        => LET logs == call[w].logs
               r == call[w].receipt
               other == batch_unsigned([i \in 1..Len(logs) |-> logs[Len(logs) + 1 - i]],
                                       r.receipt_id, r.timestamp.t)
           IN  /\ r.model = batch_model(Len(logs))
               /\ r.alias = other.alias
               /\ r.provider = other.provider
               /\ r.model = other.model

\* a batch receipt has been created from a conversation followed by a usage
\* log, whose providers differ
C27_BatchOfConversationAndUsageLog ==
    LET c == call["w1"] IN
    /\ c.pc = "done"
    /\ Len(c.logs) = 2
    /\ c.logs[1].type = "conversation" /\ c.logs[2].type = "usage"
    /\ c.logs[1].provider # c.logs[2].provider
    /\ c.receipt.provider = c.logs[1].provider

----------------------------------------------------------------------------
(* Store then get *)

\* C28: with a matching key pair configured, get_receipt(receipt_id, owner)
\* finds every receipt the service generated and stored, the receipt it
\* returns verifies, and while the generate call still holds the receipt it
\* returned, the retrieved receipt has the same signed fields (timestamp
\* with its offset and the three cost fields included) and signature.
C28_StoredReceiptReadBackAsSigned ==
    (/\ SigningConfigured
     /\ settings.receipts_public_key_base64 = settings.receipts_private_key_base64)
    => /\ \A row \in receipts :
             row.receipt_id \notin {x.receipt_id : x \in ExternalReceipts} =>
                /\ get_receipt(row.receipt_id, row.api_key_id) # {}
                /\ \A g \in get_receipt(row.receipt_id, row.api_key_id) :
                      verify_signature(g)
       /\ \A w \in Workers :
             call[w].pc \in {"link", "done"} =>
                LET r == call[w].receipt IN
                /\ get_receipt(r.receipt_id, call[w].api_key_id) # {}
                /\ \A g \in get_receipt(r.receipt_id, call[w].api_key_id) :
                      \A f \in SignedFields \cup {"signature"} : g[f] = r[f]

\* a generate call has returned a receipt that verifies; the receipt read
\* back from the store has the same signature and the same signed fields
\* except the timestamp, which has lost its offset, and does not verify
C28_RetrievedTimestampWithoutOffset ==
    LET c == call["w1"] IN
    /\ c.pc = "done"
    /\ verify_signature(c.receipt)
    /\ c.receipt.timestamp.tzinfo = UTC
    /\ \E g \in get_receipt(c.receipt.receipt_id, c.api_key_id) :
          /\ g.timestamp.tzinfo = Naive
          /\ g.timestamp.t = c.receipt.timestamp.t
          /\ \A f \in (SignedFields \ {"timestamp"}) \cup {"signature"} :
                g[f] = c.receipt[f]
          /\ ~verify_signature(g)

----------------------------------------------------------------------------
(* Receipt and links *)

\* the records the link rows of a receipt point to, each with the tokens
\* the selection reads from it
LinkedRecords(receipt_id) ==
    {[id |-> c.id, type |-> "conversation", input_tokens |-> c.total_input_tokens,
      output_tokens |-> c.total_output_tokens] :
        c \in {x \in conversations :
                 \E rl \in links_of(receipt_id) :
                    rl.log_id = x.id /\ rl.log_type = "conversation"}}
    \cup
    {[id |-> u.id, type |-> "usage", input_tokens |-> u.input_tokens,
      output_tokens |-> u.output_tokens] :
        u \in {x \in usage_logs :
                 \E rl \in links_of(receipt_id) :
                    rl.log_id = x.id /\ rl.log_type = "usage"}}

\* C29: for every stored on-demand receipt whose generate call has
\* completed, the signed prompt_tokens and completion_tokens are the sums of
\* the input and output tokens of exactly the records linked to it, every
\* link row points to a record, and batch_summary.conversation_ids and
\* batch_summary.log_ids hold exactly the linked conversations and the
\* linked usage logs.
C29_ReceiptAndLinksAgree ==
    \A r \in receipts :
        (\A w \in Workers :
            call[w].pc = "link" => call[w].receipt.receipt_id # r.receipt_id)
        => LET linked == LinkedRecords(r.receipt_id)
               OfType(t) == {x.id : x \in {y \in linked : y.type = t}}
           IN  /\ Cardinality(linked) = Cardinality(links_of(r.receipt_id))
               /\ r.tokens.input = SumField(linked, "input_tokens")
               /\ r.tokens.output = SumField(linked, "output_tokens")
               /\ {<<"prompt_tokens", r.tokens.input>>,
                   <<"completion_tokens", r.tokens.output>>}
                     \subseteq SeqToSet(r.signature.msg)
               /\ SeqToSet(r.batch_summary.conversation_ids) = OfType("conversation")
               /\ SeqToSet(r.batch_summary.log_ids) = OfType("usage")
               /\ SeqToSet(r.batch_summary.conversation_ids)
                     \cup SeqToSet(r.batch_summary.log_ids)
                   = {rl.log_id : rl \in links_of(r.receipt_id)}

\* no call is in progress; one receipt certifies a conversation and a usage
\* log, and a second receipt certifies one of the two again
C29_TwoReceiptsShareARecord ==
    /\ \A w \in Workers : call[w].pc = "idle"
    /\ \E a, b \in receipts :
          /\ a.receipt_id # b.receipt_id
          /\ Len(a.batch_summary.conversation_ids) = 1
          /\ Len(a.batch_summary.log_ids) = 1
          /\ Cardinality(links_of(a.receipt_id)) = 2
          /\ Cardinality(links_of(b.receipt_id)) = 1
          /\ \E x \in links_of(a.receipt_id), y \in links_of(b.receipt_id) :
                x.log_id = y.log_id

----------------------------------------------------------------------------
(* Repeated certification of one conversation *)

\* C30: a generate call with conversation_id selects the owner's
\* conversation of that id whether or not it has a link row; with a signing
\* key the call then stores one receipt under an identifier no stored
\* receipt has, and its linking adds one link row for the conversation;
\* the selection of a since-last-receipt call holds no conversation that
\* has a link row.
C30_ConversationModeRecertifies ==
    [][ \A w \in Workers :
          LET c == call[w]
              d == call'[w]
          IN  /\ (d # c /\ c.pc = "idle" /\ Mode(d.request) = "conversation") =>
                    /\ d.pc = "fetched"
                    /\ {l.id : l \in SeqToSet(d.logs)} =
                          {x.id : x \in {y \in conversations :
                              /\ y.id = d.request.conversation_id
                              /\ y.api_key_id = d.api_key_id}}
                    /\ \A l \in SeqToSet(d.logs) : l.type = "conversation"
              /\ (/\ d # c /\ c.pc = "fetched" /\ Mode(c.request) = "conversation"
                  /\ c.logs # <<>> /\ SigningConfigured) =>
                    /\ d.pc = "link"
                    /\ d.receipt.receipt_id \notin {r.receipt_id : r \in receipts}
                    /\ receipts \subseteq receipts'
                    /\ Cardinality(receipts') = Cardinality(receipts) + 1
                    /\ \E r \in receipts' \ receipts :
                          r.receipt_id = d.receipt.receipt_id /\ r.api_key_id = c.api_key_id
              /\ (d # c /\ c.pc = "link" /\ Mode(c.request) = "conversation") =>
                    /\ d.pc = "done"
                    /\ d.certified_count = 1
                    /\ [receipt_id |-> c.receipt.receipt_id,
                        log_id |-> c.request.conversation_id,
                        log_type |-> "conversation"] \notin receipt_logs
                    /\ receipt_logs' = receipt_logs \cup
                          {[receipt_id |-> c.receipt.receipt_id,
                            log_id |-> c.request.conversation_id,
                            log_type |-> "conversation"]}
              /\ (d # c /\ c.pc = "idle" /\ Mode(d.request) = "since_last_receipt") =>
                    \A l \in SeqToSet(d.logs) :
                       ~\E rl \in receipt_logs :
                          rl.log_id = l.id /\ rl.log_type = "conversation"
      ]_vars

\* the conversation has been certified by two calls with its id, each with
\* its own receipt, and a since-last-receipt call of its owner has then run
\* its conversation query without selecting it
C30_SinceAfterRepeatedConversationCalls ==
    LET c == call["w1"] IN
    /\ c.pc = "usage_query"
    /\ c.request = SinceLastReceipt
    /\ \E x \in conversations :
          /\ x.api_key_id = c.api_key_id
          /\ Cardinality({rl \in receipt_logs :
                 rl.log_id = x.id /\ rl.log_type = "conversation"}) = 2
          /\ Cardinality({rl.receipt_id : rl \in {y \in receipt_logs :
                 y.log_id = x.id /\ y.log_type = "conversation"}}) = 2
          /\ \A i \in 1..Len(c.logs) : c.logs[i].id # x.id

====
